---------------------------- MODULE Spec2Model ----------------------------
(***************************************************************************)
(* Verification model of two components of the Go extension for VS Code:   *)
(*   - the promise-chaining Mutex of src/debugAdapter/mutex.ts, and        *)
(*   - GoDebugConfigurationProvider (resolveDebugConfiguration,            *)
(*     resolveDebugConfigurationWithSubstitutedVariables, showWarning,     *)
(*     removeFlag).                                                        *)
(* Encoding of JavaScript values: every scalar is a string.  "true" and    *)
(* "false" are the booleans, "undefined" is the value undefined, "1", "2"  *)
(* are numbers, any other string is that string.  An object is a function  *)
(* whose DOMAIN is the set of its own properties (hasOwnProperty).         *)
(***************************************************************************)
EXTENDS Integers, Sequences, FiniteSets, TLC

VARIABLES
    \* ---- Mutex (mutex.ts) ----
    mutex,      \* this.mutex: id of the promise at the tail of the chain (0: Promise.resolve())
    pred,       \* pred[c]: the tail promise on which call c registered its then-callback
    tail,       \* tail[t]: state of promise t of the chain (t = 0 is the initial one)
    inner,      \* inner[c]: whether the promise made by `new Promise(begin)` of call c is resolved (unlock called)
    state,      \* state[c]: position of dispatch call c
    kind,       \* kind[c]: how the function passed by call c behaves
    outcome,    \* outcome[c]: settlement of Promise.resolve(fn()) of call c
    result,     \* result[c]: settlement of the promise returned by dispatch() of call c
    runs,       \* runs[c]: number of times fn of call c was invoked
    order,      \* dispatch() calls, in call order
    started,    \* calls whose fn was invoked, in invocation order
    parent,     \* parent[c]: the call whose function made call c while it ran (0: none)
    unlocks,    \* unlocks[c]: number of times the release handle lock() gave call c was called
    \* ---- GoDebugConfigurationProvider (goLint.ts 162-467) and its collaborators ----
    globalState,  \* stateUtils: the global Memento: [set: setGlobalState was called, flags: keys stored with value true]
    rpc,          \* position of the debug-session start: "idle", "resolved", "aborted", "substituted"
    input,        \* what resolveDebugConfiguration was called with and what it read from its surroundings
    cfg,          \* the debugConfiguration object (the caller's object: the provider writes into it)
    ret,          \* what the last provider call returned: "none" (not called), "undefined", "config"
    shown,        \* the warnings handed to vscode.window.showWarningMessage, in order
    open,         \* indices of shown whose prompt the user has not answered
    answers,      \* answers[i]: what became of the prompt of shown[i]: "open", "never" (Don't Show Again), "dismissed"
    sessions,     \* number of debug sessions started after the first one
    toolPrompts,  \* number of promptForMissingTool('dlv') calls
    envIn,        \* what resolveDebugConfigurationWithSubstitutedVariables read from its surroundings
    \* ---- goModules (part_001) ----
    packagePathToGoModPathMap,       \* package path -> stored module folder ("" for no entry)
    modCall,                         \* modCall[c]: position and locals of getModFolderPath call c
    goConfig,                        \* the go settings the calls read and update: useLanguageServer, formatTool
    promptCall,                      \* promptCall[c]: position and locals of the promptToUpdateToolForModules call made for call c
    promptedToolsForCurrentSession,  \* the module-level Set of tools answered with Later
    objTools,                        \* objTools[o]: the tools flagged in promptedToolsForModules object o
    storedObj,                       \* the object stored in the global state under promptedToolsForModules (-1: none)
    promptsShown,                    \* the tools showInformationMessage was called for, in order
    \* ---- goEnv (part_003) ----
    envObjs,   \* the environment objects in memory, by identity: envObjs[1] is process.env
    envCalls,  \* the calls of toolInstallationEnvironment and toolExecutionEnvironment so far, with what they returned
    \* ---- normalizeSeparators (goDebug) and getCheckForToolsUpdatesConfig (util) ----
    sepIn,     \* the path normalizeSeparators is applied to
    sepOut,    \* what normalizeSeparators returned, applied to sepIn and then to its own result
    updIn,     \* the configuration getCheckForToolsUpdatesConfig is called with
    updOut,    \* what the calls of getCheckForToolsUpdatesConfig returned, in order
    \* ---- goTools (part_002) ----
    toolsIn,   \* what getConfiguredTools is called with and reads from its surroundings
    toolsOut,  \* what the calls of getConfiguredTools returned, in order: lists of tool names
    \* ---- lintCode and goLint (goLint.ts 1-160) ----
    epoch,          \* line 158: the number of goLint calls so far
    tokenSource,    \* line 159: the current CancellationTokenSource, named by the epoch it was made in (0: undefined)
    running,        \* line 160
    cancelled,      \* the token sources cancel() was called on
    lintRuns,       \* lintRuns[e]: the goLint call of epoch e: its token, who called it, and where its promise stands
    lintCodeCalls   \* the lintCode calls so far: scope, editor and how the call ended

mutexVars == <<mutex, pred, tail, inner, state, kind, outcome, result, runs, order, started, parent, unlocks>>

resolverVars == <<globalState, rpc, input, cfg, ret, shown, open, answers, sessions, toolPrompts, envIn>>

moduleVars == <<packagePathToGoModPathMap, modCall, goConfig, promptCall, promptedToolsForCurrentSession,
                objTools, storedObj, promptsShown>>

envVars == <<envObjs, envCalls>>

utilVars == <<sepIn, sepOut, updIn, updOut, toolsIn, toolsOut>>

lintVars == <<epoch, tokenSource, running, cancelled, lintRuns, lintCodeCalls>>

vars == <<mutex, pred, tail, inner, state, kind, outcome, result, runs, order, started, parent, unlocks,
          globalState, rpc, input, cfg, ret, shown, open, answers, sessions, toolPrompts, envIn,
          packagePathToGoModPathMap, modCall, goConfig, promptCall, promptedToolsForCurrentSession,
          objTools, storedObj, promptsShown,
          envObjs, envCalls, sepIn, sepOut, updIn, updOut, toolsIn, toolsOut,
          epoch, tokenSource, running, cancelled, lintRuns, lintCodeCalls>>

\* What the operations of one component leave alone.
outsideMutex == <<resolverVars, moduleVars, envVars, utilVars, lintVars>>
outsideResolver == <<mutexVars, moduleVars, envVars, utilVars, lintVars>>
outsideModules == <<mutexVars, resolverVars, envVars, utilVars, lintVars>>
outsideEnv == <<mutexVars, resolverVars, moduleVars, utilVars, lintVars>>
outsideUtil == <<mutexVars, resolverVars, moduleVars, envVars, lintVars>>
outsideLint == <<mutexVars, resolverVars, moduleVars, envVars, utilVars>>

-----------------------------------------------------------------------------
(* Mutex *)

\* Number of dispatch() calls issued on the one Mutex.
NumCalls == 3

Calls == 1..NumCalls

\* Behaviours of a submitted function: returns / resolves, returns a promise
\* that rejects, throws synchronously, returns a promise that never settles.
BodyKinds == {"ok", "reject", "throw", "never"}

Pending == <<"pending", 0>>

\* A function that, while it runs, calls dispatch() or lock() on the same
\* Mutex and awaits the result before it returns.
ReenterKinds == {"reenter"}

\* Callers of lock() itself: one that calls the release handle it is given,
\* one that never does.
LockKinds == {"lock", "lockNever"}

MutexInit ==
    /\ mutex = 0
    /\ pred = [c \in Calls |-> 0]
    /\ tail = [t \in 0..NumCalls |-> IF t = 0 THEN "fulfilled" ELSE "pending"]
    /\ inner = [c \in Calls |-> FALSE]
    /\ state = [c \in Calls |-> "idle"]
    /\ kind = [c \in Calls |-> "ok"]
    /\ outcome = [c \in Calls |-> Pending]
    /\ result = [c \in Calls |-> Pending]
    /\ runs = [c \in Calls |-> 0]
    /\ order = <<>>
    /\ started = <<>>
    /\ parent = [c \in Calls |-> 0]
    /\ unlocks = [c \in Calls |-> 0]

\* lock(), line 7: the promise the new then-callback is registered on is the
\* current value of this.mutex.
LockPredecessorStale(c) == 0
LockPredecessor(c) == mutex

\* line 7: a then-callback with only an onFulfilled handler runs once the
\* promise it is registered on is fulfilled.
ThenReadyAlways(c) == TRUE
ThenReady(c) == tail[pred[c]] = "fulfilled"

\* Every function settles: the one that should not fulfils.
BodyOutcomeAllSettle(c, k) ==
    IF k \in {"reject", "throw"} THEN <<"rejected", c>> ELSE <<"fulfilled", c>>

\* line 19: the settlement of Promise.resolve(fn()) for a function of kind k.
BodyOutcome(c, k) ==
    CASE k = "ok" -> <<"fulfilled", c>>
      [] k = "reject" -> <<"rejected", c>>
      [] k = "throw" -> <<"rejected", c>>
      [] k = "reenter" -> <<"fulfilled", c>>
      [] OTHER -> Pending

\* A nested call that is taken to be over as soon as it is made.
NestedOverAtOnce(c) == \E d \in Calls : parent[d] = c

\* What a function of kind "reenter" awaits: the promise of the dispatch()
\* call it made has settled, or the lock() call it made has resolved.
NestedOver(c) ==
    \E d \in Calls :
        /\ parent[d] = c
        /\ IF kind[d] \in LockKinds THEN state[d] \in {"granted", "done"} ELSE result[d] # Pending

\* lines 18-22: `return await ...` inside try/finally: the promise returned by
\* dispatch settles as the awaited promise did.
DispatchResultSwallow(c, o) == <<"fulfilled", c>>
DispatchResult(c, o) == o

\* lines 20-21: finally { unlock() }: runs on every exit path of the try block.
ReleasedOnSuccessOnly(c, o) == inner[c] \/ o[1] = "fulfilled"
Released(c, o) == TRUE

\* line 8: the inner promise is only ever settled by its resolve function (the
\* unlock handle), so the promise then() returned can only be fulfilled: what
\* the submitted function did never reaches the chain.
TailOutcomePoisoned(c) == IF outcome[c][1] = "rejected" THEN "rejected" ELSE "fulfilled"
TailOutcome(c) == "fulfilled"

\* dispatch(fn) up to its first await: lock() runs synchronously (lines 4-14).
Dispatch(c, k) ==
    /\ state[c] = "idle"
    /\ pred' = [pred EXCEPT ![c] = LockPredecessor(c)]
    /\ mutex' = c
    /\ kind' = [kind EXCEPT ![c] = k]
    /\ state' = [state EXCEPT ![c] = "waiting"]
    /\ order' = Append(order, c)
    /\ UNCHANGED <<tail, inner, outcome, result, runs, started, parent, unlocks>>
    /\ UNCHANGED outsideMutex

\* A then-callback that runs without waiting for the promise it is attached to.
GrantEarly(c) ==
    /\ state[c] = "waiting"
    /\ state' = [state EXCEPT ![c] = "granted"]
    /\ UNCHANGED <<mutex, pred, tail, inner, kind, outcome, result, runs, order, started, parent, unlocks>>
    /\ UNCHANGED outsideMutex

\* lines 7-9 and 11-13: the then-callback runs `new Promise(begin)`; begin is
\* by now the resolve function of the promise lock() returned, so that promise
\* resolves with the resolve function of the inner promise (the unlock handle).
Grant(c) ==
    /\ state[c] = "waiting"
    /\ ThenReady(c)
    /\ state' = [state EXCEPT ![c] = "granted"]
    /\ UNCHANGED <<mutex, pred, tail, inner, kind, outcome, result, runs, order, started, parent, unlocks>>
    /\ UNCHANGED outsideMutex

\* A dispatch() without the finally block: a synchronous throw rejects the
\* call and leaves the mutex locked.
StartThrowEscapes(c) ==
    /\ state[c] = "granted"
    /\ kind[c] \notin LockKinds
    /\ runs' = [runs EXCEPT ![c] = @ + 1]
    /\ started' = Append(started, c)
    /\ IF kind[c] = "throw"
         THEN /\ outcome' = [outcome EXCEPT ![c] = BodyOutcome(c, kind[c])]
              /\ result' = [result EXCEPT ![c] = DispatchResult(c, BodyOutcome(c, kind[c]))]
              /\ state' = [state EXCEPT ![c] = "done"]
              /\ UNCHANGED inner
         ELSE /\ state' = [state EXCEPT ![c] = "running"]
              /\ UNCHANGED <<outcome, inner, result>>
    /\ UNCHANGED <<mutex, pred, tail, kind, order, parent, unlocks>>
    /\ UNCHANGED outsideMutex

\* lines 17-19: the continuation of `await this.lock()` invokes fn.  A function
\* that throws synchronously leaves the try block at once (lines 20-22).
Start(c) ==
    /\ state[c] = "granted"
    /\ kind[c] \notin LockKinds
    /\ runs' = [runs EXCEPT ![c] = @ + 1]
    /\ started' = Append(started, c)
    /\ IF kind[c] = "throw"
         THEN /\ outcome' = [outcome EXCEPT ![c] = BodyOutcome(c, kind[c])]
              /\ inner' = [inner EXCEPT ![c] = Released(c, BodyOutcome(c, kind[c]))]
              /\ result' = [result EXCEPT ![c] = DispatchResult(c, BodyOutcome(c, kind[c]))]
              /\ state' = [state EXCEPT ![c] = "done"]
         ELSE /\ state' = [state EXCEPT ![c] = "running"]
              /\ UNCHANGED <<outcome, inner, result>>
    /\ UNCHANGED <<mutex, pred, tail, kind, order, parent, unlocks>>
    /\ UNCHANGED outsideMutex

\* The promise returned by fn settles (never, for a function of kind "never").
Settle(c) ==
    /\ state[c] = "running"
    /\ BodyOutcome(c, kind[c]) # Pending
    /\ kind[c] = "reenter" => NestedOver(c)
    /\ outcome' = [outcome EXCEPT ![c] = BodyOutcome(c, kind[c])]
    /\ state' = [state EXCEPT ![c] = "settled"]
    /\ UNCHANGED <<mutex, pred, tail, inner, kind, result, runs, order, started, parent, unlocks>>
    /\ UNCHANGED outsideMutex

\* lines 19-22: the continuation of `await Promise.resolve(fn())`: the finally
\* block calls unlock, then the promise returned by dispatch settles.
Finally(c) ==
    /\ state[c] = "settled"
    /\ inner' = [inner EXCEPT ![c] = Released(c, outcome[c])]
    /\ result' = [result EXCEPT ![c] = DispatchResult(c, outcome[c])]
    /\ state' = [state EXCEPT ![c] = "done"]
    /\ UNCHANGED <<mutex, pred, tail, kind, outcome, runs, order, started, parent, unlocks>>
    /\ UNCHANGED outsideMutex

\* lines 7-9: the promise returned by then() follows the inner promise its
\* callback returned: it is fulfilled once unlock has resolved the inner one.
TailSettle(c) ==
    /\ state[c] # "idle"
    /\ state[c] # "waiting"
    /\ inner[c]
    /\ tail[c] = "pending"
    /\ tail' = [tail EXCEPT ![c] = TailOutcome(c)]
    /\ UNCHANGED <<mutex, pred, inner, state, kind, outcome, result, runs, order, started, parent, unlocks>>
    /\ UNCHANGED outsideMutex

\* lock() called directly (lines 4-14): the caller is handed the release
\* handle once the then-callback has run (Grant).
Lock(c, k) ==
    /\ state[c] = "idle"
    /\ pred' = [pred EXCEPT ![c] = LockPredecessor(c)]
    /\ mutex' = c
    /\ kind' = [kind EXCEPT ![c] = k]
    /\ state' = [state EXCEPT ![c] = "waiting"]
    /\ order' = Append(order, c)
    /\ UNCHANGED <<tail, inner, outcome, result, runs, started, parent, unlocks>>
    /\ UNCHANGED outsideMutex

\* line 8: the holder calls the release handle, the resolve function of the
\* inner promise.
Unlock(c) ==
    /\ state[c] = "granted"
    /\ kind[c] = "lock"
    /\ inner' = [inner EXCEPT ![c] = TRUE]
    /\ unlocks' = [unlocks EXCEPT ![c] = @ + 1]
    /\ state' = [state EXCEPT ![c] = "done"]
    /\ UNCHANGED <<mutex, pred, tail, kind, outcome, result, runs, order, started, parent>>
    /\ UNCHANGED outsideMutex

\* Bound on the calls of one release handle.
MaxUnlocks == 3

\* A release handle that releases the mutex for whoever holds it.
UnlockAgainReleasesHolder(c) ==
    /\ state[c] = "done"
    /\ kind[c] = "lock"
    /\ unlocks[c] < MaxUnlocks
    /\ inner' = [d \in DOMAIN inner |-> inner[d] \/ d = c \/ state[d] \in {"granted", "running", "settled"}]
    /\ unlocks' = [unlocks EXCEPT ![c] = @ + 1]
    /\ UNCHANGED <<mutex, pred, tail, state, kind, outcome, result, runs, order, started, parent>>
    /\ UNCHANGED outsideMutex

\* line 8 again: the holder of call c calls its release handle once more.
\* The handle is the resolve function of the inner promise of call c alone
\* (lines 7-13), which is resolved already.
UnlockAgain(c) ==
    /\ state[c] = "done"
    /\ kind[c] = "lock"
    /\ unlocks[c] < MaxUnlocks
    /\ inner' = [inner EXCEPT ![c] = TRUE]
    /\ unlocks' = [unlocks EXCEPT ![c] = @ + 1]
    /\ UNCHANGED <<mutex, pred, tail, state, kind, outcome, result, runs, order, started, parent>>
    /\ UNCHANGED outsideMutex

\* The running function of call c calls dispatch(fn) (k a kind of function)
\* or lock() (k = "lock") on the same Mutex: call d, made from inside c.
Reenter(c, d, k) ==
    /\ state[c] = "running"
    /\ kind[c] = "reenter"
    /\ \A e \in Calls : parent[e] # c
    /\ state[d] = "idle"
    /\ pred' = [pred EXCEPT ![d] = LockPredecessor(d)]
    /\ mutex' = d
    /\ kind' = [kind EXCEPT ![d] = k]
    /\ state' = [state EXCEPT ![d] = "waiting"]
    /\ order' = Append(order, d)
    /\ parent' = [parent EXCEPT ![d] = c]
    /\ UNCHANGED <<tail, inner, outcome, result, runs, started, unlocks>>
    /\ UNCHANGED outsideMutex

MutexNext ==
    \/ \E c \in Calls, k \in BodyKinds : Dispatch(c, k)
    \/ \E c \in Calls : Grant(c)
    \/ \E c \in Calls : Start(c)
    \/ \E c \in Calls : Settle(c)
    \/ \E c \in Calls : Finally(c)
    \/ \E c \in Calls : TailSettle(c)

\* The Mutex with every kind of caller: dispatch() with functions of every
\* kind, re-entrant ones included, and lock() called directly.
LockNext ==
    \/ \E c \in Calls, k \in BodyKinds \cup ReenterKinds : Dispatch(c, k)
    \/ \E c \in Calls, k \in LockKinds : Lock(c, k)
    \/ \E c \in Calls : Grant(c)
    \/ \E c \in Calls : Start(c)
    \/ \E c, d \in Calls, k \in {"ok", "lock"} : Reenter(c, d, k)
    \/ \E c \in Calls : Settle(c)
    \/ \E c \in Calls : Finally(c)
    \/ \E c \in Calls : Unlock(c)
    \/ \E c \in Calls : TailSettle(c)

\* Callers whose function settles or never does, and lock() callers that
\* release or never do.
HoldNext ==
    \/ \E c \in Calls, k \in {"ok", "never"} : Dispatch(c, k)
    \/ \E c \in Calls, k \in LockKinds : Lock(c, k)
    \/ \E c \in Calls : Grant(c)
    \/ \E c \in Calls : Start(c)
    \/ \E c \in Calls : Settle(c)
    \/ \E c \in Calls : Finally(c)
    \/ \E c \in Calls : Unlock(c)
    \/ \E c \in Calls : TailSettle(c)

\* lock() callers that call their release handle any number of times, among
\* dispatch() calls.
UnlockNext ==
    \/ \E c \in Calls : Dispatch(c, "ok")
    \/ \E c \in Calls, k \in LockKinds : Lock(c, k)
    \/ \E c \in Calls : Grant(c)
    \/ \E c \in Calls : Start(c)
    \/ \E c \in Calls : Settle(c)
    \/ \E c \in Calls : Finally(c)
    \/ \E c \in Calls : Unlock(c)
    \/ \E c \in Calls : UnlockAgain(c)
    \/ \E c \in Calls : TailSettle(c)

\* dispatch() with functions that settle: by fulfilling, by rejecting, or by
\* throwing before they return a promise.
ThrowNext ==
    \/ \E c \in Calls, k \in {"ok", "reject", "throw"} : Dispatch(c, k)
    \/ \E c \in Calls : Grant(c)
    \/ \E c \in Calls : Start(c)
    \/ \E c \in Calls : Settle(c)
    \/ \E c \in Calls : Finally(c)
    \/ \E c \in Calls : TailSettle(c)

\* The event loop runs every queued promise reaction, and a function of a
\* settling kind settles; nothing obliges a caller to call dispatch.
MutexFairness ==
    \A c \in Calls :
        /\ WF_vars(Grant(c))
        /\ WF_vars(Start(c))
        /\ WF_vars(Settle(c))
        /\ WF_vars(Finally(c))
        /\ WF_vars(TailSettle(c))

-----------------------------------------------------------------------------
(* Claims about the Mutex *)

\* Position of call c in the order of the dispatch() calls (0: not called yet).
Pos(c) == IF \E i \in 1..Len(order) : order[i] = c
            THEN CHOOSE i \in 1..Len(order) : order[i] = c
            ELSE 0

IsPrefix(s, t) == Len(s) <= Len(t) /\ \A i \in 1..Len(s) : s[i] = t[i]

\* Every call made before c was given a function that settles.
EarlierSettle(c) == \A d \in Calls : (Pos(d) > 0 /\ Pos(d) < Pos(c)) => kind[d] # "never"

\* C1: at any instant at most one submitted function is between its start
\* and its settlement.
C1_MutualExclusion == Cardinality({c \in Calls : state[c] = "running"}) <= 1

\* C1 witness: a function is running while another call is queued behind it.
C1_Witness == \E c, d \in Calls : c # d /\ state[c] = "running" /\ state[d] = "waiting" /\ pred[d] = c

\* C2: the functions start in exactly the order of the dispatch() calls: the
\* sequence of starts is always a prefix of the sequence of calls.
C2_StartOrder == IsPrefix(started, order)

\* C2 witness: every call was made, not in the order of the call ids, some
\* function rejected, and all the functions have started.
C2_Witness ==
    /\ Len(order) = NumCalls
    /\ Len(started) = NumCalls
    /\ order[1] # 1
    /\ \E c \in Calls : kind[c] = "reject"

\* C3: a call whose predecessors all settle eventually has its function
\* invoked, and no function is ever invoked twice or skipped.
C3_EventuallyRunsOnce ==
    /\ [](\A c \in Calls : runs[c] <= 1 /\ (state[c] = "done" => runs[c] = 1))
    /\ \A c \in Calls : (state[c] = "waiting" /\ EarlierSettle(c)) ~> (runs[c] = 1)

\* C3 witness: the last of NumCalls calls ran after a predecessor failed.
C3_Witness ==
    \E c, d \in Calls :
        /\ Pos(c) = NumCalls /\ runs[c] = 1 /\ EarlierSettle(c)
        /\ Pos(d) < Pos(c) /\ kind[d] \in {"reject", "throw"}

\* C4: a call that is over has released the mutex whatever its function did;
\* the next call proceeds only after its predecessor is over; and a call
\* queued behind a function that failed eventually has its function invoked.
C4_ReleaseOnFailure ==
    /\ [](\A c \in Calls : state[c] = "done" => inner[c])
    /\ [](\A d \in Calls : (state[d] \notin {"idle", "waiting"} /\ pred[d] # 0) => state[pred[d]] = "done")
    /\ \A c, d \in Calls :
          (pred[d] = c /\ state[d] = "waiting" /\ outcome[c][1] = "rejected") ~> (runs[d] = 1)

\* C4 witness: a function ran right behind one that rejected.
C4_Witness ==
    \E c, d \in Calls : pred[d] = c /\ kind[c] = "reject" /\ result[c][1] = "rejected" /\ runs[d] = 1

\* C5: the promise returned by dispatch() is pending until the call is over
\* and then carries its own function's outcome: fulfilled with its value, or
\* rejected with its error, never with anything of another call.
C5_OwnOutcome ==
    \A c \in Calls :
        /\ state[c] # "done" => result[c] = Pending
        /\ state[c] = "done" => result[c] = BodyOutcome(c, kind[c])
        /\ result[c][1] = "rejected" => (kind[c] \in {"reject", "throw"} /\ result[c][2] = c)
        /\ result[c][1] = "fulfilled" => (kind[c] = "ok" /\ result[c][2] = c)

\* C5 witness: a call rejected and a later call on the same mutex fulfilled.
C5_Witness ==
    \E c, d \in Calls :
        /\ Pos(c) > 0 /\ Pos(c) < Pos(d)
        /\ result[c][1] = "rejected" /\ result[d][1] = "fulfilled"

-----------------------------------------------------------------------------
(* JavaScript objects and values *)

EmptyObj == [x \in {} |-> ""]

\* o.hasOwnProperty(k)
Has(o, k) == k \in DOMAIN o

\* o[k]: undefined for a property the object does not have.
Get(o, k) == IF k \in DOMAIN o THEN o[k] ELSE "undefined"

\* o[k] = v
Put(o, k, v) == [x \in DOMAIN o \cup {k} |-> IF x = k THEN v ELSE o[x]]

\* Object.assign(a, b): b's properties overwrite a's.
AssignKeepsFirst(a, b) == [x \in DOMAIN a \cup DOMAIN b |-> IF x \in DOMAIN a THEN a[x] ELSE b[x]]
Assign(a, b) == [x \in DOMAIN a \cup DOMAIN b |-> IF x \in DOMAIN b THEN b[x] ELSE a[x]]

\* ToBoolean of a scalar.
Truthy(v) == v \notin {"", "undefined", "false", "0", "null"}

-----------------------------------------------------------------------------
(* Command-line flag strings.  A string of flags is the sequence of its      *)
(* blank-separated words; the empty string is the empty sequence.            *)

\* yargs-parser, a word of the form -key=value or --key=value: its key and value.
EqWords ==
    [w \in {"--gcflags=all=-N", "-gcflags=-l", "--gcflags=", "--other=1", "--mod=mod",
            "--other=--gcflags=all=-N"} |->
        CASE w = "--gcflags=all=-N" -> <<"gcflags", "all=-N">>
          [] w = "--other=--gcflags=all=-N" -> <<"other", "--gcflags=all=-N">>
          [] w = "-gcflags=-l" -> <<"gcflags", "-l">>
          [] w = "--gcflags=" -> <<"gcflags", "">>
          [] w = "--other=1" -> <<"other", "1">>
          [] w = "--mod=mod" -> <<"mod", "mod">>]

\* yargs-parser with short-option-groups off, a word of the form -key or --key: its key.
KeyWords ==
    [w \in {"-l", "-race", "--race", "--other", "--mod", "--gcflags"} |->
        CASE w = "-l" -> "l"
          [] w = "-race" -> "race"
          [] w = "--race" -> "race"
          [] w = "--other" -> "other"
          [] w = "--mod" -> "mod"
          [] w = "--gcflags" -> "gcflags"]

\* yargs-unparser keyToFlag: one dash for a one-letter key, two otherwise.
KeyToFlag ==
    [k \in {"l", "race", "other", "mod", "gcflags"} |->
        CASE k = "l" -> "-l"
          [] k = "race" -> "--race"
          [] k = "other" -> "--other"
          [] k = "mod" -> "--mod"
          [] k = "gcflags" -> "--gcflags"]

\* parse(args, {configuration: {'short-option-groups': false}}): the options
\* as <<key, value>> pairs in order of appearance.  A key word takes the next
\* word as its value unless that word starts with a dash; alone it is true.
RECURSIVE parse(_)
parse(ws) ==
    IF ws = <<>> THEN <<>>
    ELSE IF Head(ws) \in DOMAIN EqWords
      THEN <<EqWords[Head(ws)]>> \o parse(Tail(ws))
    ELSE IF Head(ws) \in DOMAIN KeyWords
      THEN IF Len(ws) >= 2 /\ ws[2] \notin DOMAIN EqWords /\ ws[2] \notin DOMAIN KeyWords
             THEN <<<<KeyWords[Head(ws)], ws[2]>>>> \o parse(Tail(Tail(ws)))
             ELSE <<<<KeyWords[Head(ws)], "true">>>> \o parse(Tail(ws))
    ELSE parse(Tail(ws))

\* unparse(argv).join(' '): a flag word per option, followed by its value
\* unless the value is true.
RECURSIVE unparse(_)
unparse(argv) ==
    IF argv = <<>> THEN <<>>
    ELSE (IF Head(argv)[2] = "true"
            THEN <<KeyToFlag[Head(argv)[1]]>>
            ELSE <<KeyToFlag[Head(argv)[1]], Head(argv)[2]>>) \o unparse(Tail(argv))

\* delete argv[flag]
RECURSIVE deleteKey(_, _)
deleteKey(argv, flag) ==
    IF argv = <<>> THEN <<>>
    ELSE IF Head(argv)[1] = flag THEN deleteKey(Tail(argv), flag)
    ELSE <<Head(argv)>> \o deleteKey(Tail(argv), flag)

\* argv[flag] is truthy
argvTruthy(argv, flag) == \E i \in 1..Len(argv) : argv[i][1] = flag /\ Truthy(argv[i][2])

\* removeFlag(args, flag)
removeFlag(args, flag) ==
    IF argvTruthy(parse(args), flag)
      THEN [args |-> unparse(deleteKey(parse(args), flag)), removed |-> TRUE]
      ELSE [args |-> args, removed |-> FALSE]

-----------------------------------------------------------------------------
(* GoDebugConfigurationProvider.                                             *)
(* A debug configuration is a record                                         *)
(*   def     : FALSE for the value undefined (no configuration object)       *)
(*   p       : its properties with scalar values; buildFlags, env and        *)
(*             envFile are held here only by their type ("string",           *)
(*             "object", "array", "undefined"), their content is below       *)
(*   bf      : the words of buildFlags                                       *)
(*   env     : the env object: variable name -> the words of its value       *)
(*   envFile : the paths of envFile (one for a string, several for an array) *)
(* A file name is [dir, base, tail]: directory, then base and tail making up *)
(* the last path segment, so that fileName.endsWith(x) compares the tail.    *)

NoConfig == [def |-> FALSE, p |-> EmptyObj, bf |-> <<>>, env |-> EmptyObj, envFile |-> <<>>]

\* The GoDebugConfigurationProvider constructor's default, line 181.
defaultDebugAdapterType == "go"

WarningKeys == {"ignoreDebugGCFlagsWarning", "ignoreDebugLaunchRemoteWarning",
                "ignoreUsingRemotePathAndProgramWarning"}

\* path.dirname(fileName)
dirname(f) == f.dir

\* fileName.endsWith('_test.go')
endsWithTestGo(f) == f.tail = "_test.go"

\* path.isAbsolute(p): an absolute path starts at the root.
isAbsoluteAlways(p) == TRUE
isAbsolute(p) == p \in {"/go/bin/dlv", "/ws", "/home/user", "/home/user/proj", "/tmp/dbg"}

\* util.resolvePath: expands a leading home-directory shorthand; any other
\* path is returned as it is.
resolvePath(p) ==
    CASE p = "~" -> "/home/user"
      [] p = "~/proj" -> "/home/user/proj"
      [] OTHER -> p

\* lines 320-324: the request is missing and no Go file is in the active editor.
NothingToDebugIgnoresEditor(c, ed) == FALSE
NothingToDebug(c, ed) ==
    /\ (~c.def \/ ~Truthy(Get(c.p, "request")))
    /\ (~ed.present \/ ed.languageId # "go")

\* lines 320-333: a missing request is read as a missing launch.json.
SkeletonProgramIsFile(c, ed) ==
    IF ~c.def \/ ~Truthy(Get(c.p, "request"))
      THEN [c EXCEPT !.def = TRUE,
                     !.p = Assign(c.p, [name |-> "Launch",
                                        type |-> defaultDebugAdapterType,
                                        request |-> "launch",
                                        mode |-> "auto",
                                        program |-> ed.fileName.base])]
      ELSE c
Skeleton(c, ed) ==
    IF ~c.def \/ ~Truthy(Get(c.p, "request"))
      THEN [c EXCEPT !.def = TRUE,
                     !.p = Assign(c.p, [name |-> "Launch",
                                        type |-> defaultDebugAdapterType,
                                        request |-> "launch",
                                        mode |-> "auto",
                                        program |-> dirname(ed.fileName)])]
      ELSE c

\* lines 335-337
DefaultTypeNever(c) == c
DefaultType(c) ==
    IF ~Truthy(Get(c.p, "type"))
      THEN [c EXCEPT !.p = Put(c.p, "type", defaultDebugAdapterType)]
      ELSE c

\* line 339
ModPathMap(c) == [c EXCEPT !.p = Put(c.p, "packagePathToGoModPathMap", "packagePathToGoModPathMap")]

\* lines 343-348: the effective useApiV1
useApiV1WorkspaceFirst(c, dlvConfig) ==
    IF Has(dlvConfig, "useApiV1") THEN dlvConfig["useApiV1"] = "true"
    ELSE IF Has(c.p, "useApiV1") THEN c.p["useApiV1"] = "true"
    ELSE FALSE
useApiV1(c, dlvConfig) ==
    IF Has(c.p, "useApiV1") THEN c.p["useApiV1"] = "true"
    ELSE IF Has(dlvConfig, "useApiV1") THEN dlvConfig["useApiV1"] = "true"
    ELSE FALSE

\* lines 349-354
ApiVersion(c, dlvConfig) ==
    LET c1 == IF useApiV1(c, dlvConfig) THEN [c EXCEPT !.p = Put(c.p, "apiVersion", "1")] ELSE c
    IN  IF ~Has(c1.p, "apiVersion") /\ Has(dlvConfig, "apiVersion")
          THEN [c1 EXCEPT !.p = Put(c1.p, "apiVersion", dlvConfig["apiVersion"])]
          ELSE c1

\* lines 355-363
DlvDefaultsForFalsy(c, dlvConfig) ==
    LET c1 == IF ~Truthy(Get(c.p, "dlvLoadConfig")) /\ Has(dlvConfig, "dlvLoadConfig")
                THEN [c EXCEPT !.p = Put(c.p, "dlvLoadConfig", dlvConfig["dlvLoadConfig"])]
                ELSE c
    IN  IF ~Truthy(Get(c1.p, "showGlobalVariables")) /\ Has(dlvConfig, "showGlobalVariables")
          THEN [c1 EXCEPT !.p = Put(c1.p, "showGlobalVariables", dlvConfig["showGlobalVariables"])]
          ELSE c1
DlvDefaults(c, dlvConfig) ==
    LET c1 == IF ~Has(c.p, "dlvLoadConfig") /\ Has(dlvConfig, "dlvLoadConfig")
                THEN [c EXCEPT !.p = Put(c.p, "dlvLoadConfig", dlvConfig["dlvLoadConfig"])]
                ELSE c
    IN  IF ~Has(c1.p, "showGlobalVariables") /\ Has(dlvConfig, "showGlobalVariables")
          THEN [c1 EXCEPT !.p = Put(c1.p, "showGlobalVariables", dlvConfig["showGlobalVariables"])]
          ELSE c1

\* lines 364-370
CwdForEveryRequest(c) ==
    LET c1 == IF ~Truthy(Get(c.p, "cwd"))
                THEN [c EXCEPT !.p = Put(c.p, "cwd", "${workspaceFolder}")]
                ELSE c
    IN  [c1 EXCEPT !.p = Put(c1.p, "cwd", resolvePath(c1.p["cwd"]))]
Cwd(c) ==
    LET c1 == IF c.p["request"] = "attach" /\ ~Truthy(Get(c.p, "cwd"))
                THEN [c EXCEPT !.p = Put(c.p, "cwd", "${workspaceFolder}")]
                ELSE c
    IN  IF Truthy(Get(c1.p, "cwd"))
          THEN [c1 EXCEPT !.p = Put(c1.p, "cwd", resolvePath(c1.p["cwd"]))]
          ELSE c1

\* line 373: debugConfiguration['buildFlags'] is a non-empty string
HasBuildFlags(c) == Has(c.p, "buildFlags") /\ c.bf # <<>>

\* line 383: debugConfiguration['env'] && debugConfiguration['env']['GOFLAGS']
HasGoFlags(c) == Has(c.p, "env") /\ Has(c.env, "GOFLAGS") /\ c.env["GOFLAGS"] # <<>>

\* lines 373-382: the configuration, with gcflags taken out of buildFlags
StripBuildFlags(c) ==
    IF HasBuildFlags(c) /\ removeFlag(c.bf, "gcflags").removed
      THEN [c EXCEPT !.bf = removeFlag(c.bf, "gcflags").args]
      ELSE c

\* lines 383-392: the configuration, with gcflags taken out of env.GOFLAGS
StripGoFlags(c) ==
    IF HasGoFlags(c) /\ removeFlag(c.env["GOFLAGS"], "gcflags").removed
      THEN [c EXCEPT !.env = Put(c.env, "GOFLAGS", removeFlag(c.env["GOFLAGS"], "gcflags").args)]
      ELSE c

\* lines 377-380 and 387-390: the showWarning calls of the two steps, as
\* <<key, field the message names>>
GcFlagsWarnings(c) ==
    (IF HasBuildFlags(c) /\ removeFlag(c.bf, "gcflags").removed
       THEN << <<"ignoreDebugGCFlagsWarning", "buildFlags">> >> ELSE <<>>)
    \o
    (IF HasGoFlags(c) /\ removeFlag(c.env["GOFLAGS"], "gcflags").removed
       THEN << <<"ignoreDebugGCFlagsWarning", "GOFLAGS">> >> ELSE <<>>)

\* line 394
DlvToolPath(c, dlvPath) == [c EXCEPT !.p = Put(c.p, "dlvToolPath", dlvPath)]

\* lines 400-403
ModeKeepsAuto(c, ed) == c
ModeAlwaysDebug(c, ed) ==
    IF Get(c.p, "mode") = "auto" THEN [c EXCEPT !.p = Put(c.p, "mode", "debug")] ELSE c
Mode(c, ed) ==
    IF Get(c.p, "mode") = "auto"
      THEN [c EXCEPT !.p = Put(c.p, "mode",
                IF ed.present /\ endsWithTestGo(ed.fileName) THEN "test" ELSE "debug")]
      ELSE c

\* lines 405-421: the showWarning calls about the remote mode
RemoteWarnings(c) ==
    (IF c.p["request"] = "launch" /\ Get(c.p, "mode") = "remote"
       THEN << <<"ignoreDebugLaunchRemoteWarning", "mode">> >> ELSE <<>>)
    \o
    (IF c.p["request"] = "attach" /\ Get(c.p, "mode") = "remote" /\ Truthy(Get(c.p, "program"))
       THEN << <<"ignoreUsingRemotePathAndProgramWarning", "program">> >> ELSE <<>>)

\* lines 314-423: resolveDebugConfiguration.  cfg is the object as the call
\* leaves it, ret what it returns, warn its showWarning calls in order, tool
\* the number of promptForMissingTool('dlv') calls.
resolveDebugConfigurationClearsProgram(c, ed, dlvConfig, dlvPath) ==
    IF NothingToDebug(c, ed)
      THEN [cfg |-> c, ret |-> "undefined", warn |-> <<>>, tool |-> 0]
      ELSE
        LET c6 == Cwd(DlvDefaults(ApiVersion(ModPathMap(DefaultType(Skeleton(c, ed))), dlvConfig), dlvConfig))
            c8 == DlvToolPath(StripGoFlags(StripBuildFlags(c6)), dlvPath)
            c9 == Mode(c8, ed)
        IN  IF ~isAbsolute(dlvPath)
              THEN [cfg |-> c8, ret |-> "undefined", warn |-> GcFlagsWarnings(c6), tool |-> 1]
              ELSE [cfg |-> IF RemoteWarnings(c9) = <<>> THEN c9 ELSE [c9 EXCEPT !.p = Put(c9.p, "program", "")],
                    ret |-> "config",
                    warn |-> GcFlagsWarnings(c6) \o RemoteWarnings(c9), tool |-> 0]
resolveDebugConfiguration(c, ed, dlvConfig, dlvPath) ==
    IF NothingToDebug(c, ed)
      THEN [cfg |-> c, ret |-> "undefined", warn |-> <<>>, tool |-> 0]
      ELSE
        LET c6 == Cwd(DlvDefaults(ApiVersion(ModPathMap(DefaultType(Skeleton(c, ed))), dlvConfig), dlvConfig))
            c8 == DlvToolPath(StripGoFlags(StripBuildFlags(c6)), dlvPath)
            c9 == Mode(c8, ed)
        IN  IF ~isAbsolute(dlvPath)
              THEN [cfg |-> c8, ret |-> "undefined", warn |-> GcFlagsWarnings(c6), tool |-> 1]
              ELSE [cfg |-> c9, ret |-> "config",
                    warn |-> GcFlagsWarnings(c6) \o RemoteWarnings(c9), tool |-> 0]

\* stateUtils.getFromGlobalState(key): undefined before setGlobalState.
getFromGlobalState(gs, key) == gs.set /\ key \in gs.flags

\* stateUtils.updateGlobalState(key, true): nothing before setGlobalState.
updateGlobalStateEveryKey(gs, key) == IF gs.set THEN [gs EXCEPT !.flags = WarningKeys] ELSE gs
updateGlobalState(gs, key) == IF gs.set THEN [gs EXCEPT !.flags = @ \cup {key}] ELSE gs

\* stateUtils.updateGlobalState(item, undefined), as resetGlobalKey calls it
\* (part_000 line 303): the key is no longer stored.
clearGlobalState(gs, key) == IF gs.set THEN [gs EXCEPT !.flags = @ \ {key}] ELSE gs

\* lines 445-452: the showWarning calls that reach showWarningMessage.
showWarningAlways(gs, warn) == warn
showWarning(gs, warn) == SelectSeq(warn, LAMBDA w : ~getFromGlobalState(gs, w[1]))

(* goEnv.ts *)

\* resolvePath applied to the value of an environment variable
resolvePathWords(ws) == IF Len(ws) = 1 THEN <<resolvePath(ws[1])>> ELSE ws

\* newEnvironment(): a new object holding process.env, overlaid with
\* go.toolsEnvVars (values path-resolved) and the http.proxy setting.
newEnvironment(e) ==
    LET env1 == IF e.toolsEnvVars.def
                  THEN Assign(e.processEnv,
                              [k \in DOMAIN e.toolsEnvVars.vars |-> resolvePathWords(e.toolsEnvVars.vars[k])])
                  ELSE e.processEnv
    IN  IF Truthy(e.httpProxy)
          THEN Assign(env1, [http_proxy |-> <<e.httpProxy>>, HTTP_PROXY |-> <<e.httpProxy>>,
                             https_proxy |-> <<e.httpProxy>>, HTTPS_PROXY |-> <<e.httpProxy>>])
          ELSE env1

\* toolExecutionEnvironment(uri)
toolExecutionEnvironment(e) ==
    IF Truthy(e.gopath)
      THEN Put(newEnvironment(e), "GOPATH", <<e.gopath>>)
      ELSE newEnvironment(e)

\* envUtils.parseEnvFiles(envFile): the variables of the named files, a later
\* file overriding an earlier one; nothing for an absent envFile.
RECURSIVE parseEnvFiles(_, _)
parseEnvFiles(paths, files) ==
    IF paths = <<>> THEN EmptyObj
    ELSE Assign(files[Head(paths)], parseEnvFiles(Tail(paths), files))

\* line 439: Object.assign(goToolsEnvVars, fileEnvs, env)
MergeEnvInlineLoses(tools, fileEnvs, env) == Assign(Assign(env, fileEnvs), tools)
MergeEnv(tools, fileEnvs, env) == Assign(Assign(tools, fileEnvs), env)

\* line 440
ClearEnvFileKeeps(c) == c
ClearEnvFile(c) == [c EXCEPT !.p = Put(c.p, "envFile", "undefined"), !.envFile = <<>>]

\* lines 425-443: resolveDebugConfigurationWithSubstitutedVariables
resolveDebugConfigurationWithSubstitutedVariables(c, e) ==
    LET goToolsEnvVars == toolExecutionEnvironment(e)
        fileEnvs == parseEnvFiles(c.envFile, e.files)
        env == IF Has(c.p, "env") THEN c.env ELSE EmptyObj
    IN  ClearEnvFile([c EXCEPT !.p = Put(c.p, "env", "object"),
                               !.env = MergeEnv(goToolsEnvVars, fileEnvs, env)])

-----------------------------------------------------------------------------
(* The inputs of a debug-session start *)

\* The object with the properties given as a set of <<name, value>> pairs.
ObjOf(pairs) == [k \in {pr[1] : pr \in pairs} |-> (CHOOSE pr \in pairs : pr[1] = k)[2]]

\* A property that is absent or has one of the given values.
Opt(name, values) == {{}} \cup {{<<name, v>>} : v \in values}

NoEditor == [present |-> FALSE, languageId |-> "", fileName |-> [dir |-> "", base |-> "", tail |-> ""]]

GoEditor == [present |-> TRUE, languageId |-> "go", fileName |-> [dir |-> "/ws", base |-> "main", tail |-> ".go"]]

\* vscode.window.activeTextEditor: none, a Go file, a Go test file, a file of
\* another language, a file named like a Go test opened as plain text.
Editors ==
    {NoEditor, GoEditor,
     [present |-> TRUE, languageId |-> "go", fileName |-> [dir |-> "/ws/pkg", base |-> "main", tail |-> "_test.go"]],
     [present |-> TRUE, languageId |-> "markdown", fileName |-> [dir |-> "/ws/docs", base |-> "notes", tail |-> ".md"]],
     [present |-> TRUE, languageId |-> "plaintext", fileName |-> [dir |-> "/ws", base |-> "x", tail |-> "_test.go"]]}

\* getBinPath('dlv'): the absolute path of the tool, or its bare name when it is not found.
DlvPaths == {"/go/bin/dlv", "dlv"}

\* A configuration object with scalar properties only.
Scalars(props) == [def |-> TRUE, p |-> props, bf |-> <<>>, env |-> EmptyObj, envFile |-> <<>>]

\* User configurations over name, request, type, mode and program, and no configuration.
CoreConfigs ==
    {NoConfig} \cup
    {Scalars(ObjOf(n \cup r \cup t \cup m \cup g)) :
        n \in Opt("name", {"Debug cmd"}),
        r \in Opt("request", {"launch", "attach"}),
        t \in Opt("type", {"godlvdap"}),
        m \in Opt("mode", {"auto", "debug", "test", "remote"}),
        g \in Opt("program", {"/ws/cmd"})}

\* User configurations over useApiV1 and apiVersion, with the delveConfig setting.
ApiConfigs == {ObjOf(u \cup a) : u \in Opt("useApiV1", {"true", "false"}), a \in Opt("apiVersion", {"2"})}
ApiDlvConfigs == {ObjOf(u \cup a) : u \in Opt("useApiV1", {"true", "false"}), a \in Opt("apiVersion", {"3"})}

\* User configurations over dlvLoadConfig and showGlobalVariables, with the delveConfig setting.
LoadConfigs ==
    {ObjOf(l \cup g) : l \in Opt("dlvLoadConfig", {"userLoadConfig"}),
                       g \in Opt("showGlobalVariables", {"true", "false"})}
LoadDlvConfigs ==
    {ObjOf(l \cup g) : l \in Opt("dlvLoadConfig", {"dlvLoadConfig"}),
                       g \in Opt("showGlobalVariables", {"true"})}

CwdConfigs == {ObjOf(w) : w \in Opt("cwd", {"", "~/proj", "/tmp/dbg"})}

\* buildFlags strings and env objects with or without GOFLAGS.
BuildFlagsValues ==
    {<<>>, <<"--gcflags=all=-N", "-l", "--other=1">>, <<"--other=1">>, <<"-race", "-gcflags=-l", "--mod=mod">>,
     <<"--gcflags=", "--other=1">>, <<"-gcflags=-l", "--other=--gcflags=all=-N">>}
GoFlagsEnvs ==
    {EmptyObj, [GOFLAGS |-> <<"-gcflags=-l">>], [GOFLAGS |-> <<"--other=1">>, B |-> <<"3">>],
     [GOFLAGS |-> <<"-race", "--gcflags=all=-N">>]}
FlagConfigs ==
    {[def |-> TRUE, p |-> ObjOf(b \cup e), bf |-> IF b = {} THEN <<>> ELSE bf,
      env |-> IF e = {} THEN EmptyObj ELSE env, envFile |-> <<>>] :
        b \in Opt("buildFlags", {"string"}), bf \in BuildFlagsValues,
        e \in Opt("env", {"object"}), env \in GoFlagsEnvs}

\* env objects and envFile settings: absent, one path, a list of paths.
InlineEnvs == {EmptyObj, [B |-> <<"3">>], [A |-> <<"5">>, D |-> <<"6">>]}
EnvFileSettings == {<<"string", <<"/ws/a.env">> >>, <<"array", <<"/ws/a.env", "/ws/b.env">> >>,
                    <<"array", <<"/ws/b.env", "/ws/a.env">> >>, <<"array", <<>> >>}
EnvConfigs ==
    {[def |-> TRUE, p |-> ObjOf(e), bf |-> <<>>, env |-> IF e = {} THEN EmptyObj ELSE env, envFile |-> <<>>] :
        e \in Opt("env", {"object"}), env \in InlineEnvs}
    \cup
    {[def |-> TRUE, p |-> ObjOf(e \cup {<<"envFile", f[1]>>}), bf |-> <<>>,
      env |-> IF e = {} THEN EmptyObj ELSE env, envFile |-> f[2]] :
        e \in Opt("env", {"object"}), env \in InlineEnvs, f \in EnvFileSettings}

\* The configurations of a group, each with and without a request.
WithRequest(configs) ==
    {[c EXCEPT !.p = Assign(c.p, ObjOf(r))] : c \in configs, r \in Opt("request", {"launch", "attach"})}

\* What resolveDebugConfiguration is called with and reads: the user
\* configuration, the active editor, go.delveConfig and the dlv path.  The
\* core properties are taken with every editor; each group of optional
\* properties with every setting of its own, an absent and a present request,
\* with and without a Go editor, with and without dlv.
ResolverInputs ==
    {[group |-> "core", user |-> c, editor |-> ed, dlvConfig |-> EmptyObj, dlvPath |-> d] :
        c \in CoreConfigs, ed \in Editors, d \in DlvPaths}
    \cup
    {[group |-> "api", user |-> c, editor |-> ed, dlvConfig |-> dc, dlvPath |-> d] :
        c \in WithRequest({Scalars(x) : x \in ApiConfigs}), dc \in ApiDlvConfigs,
        ed \in {NoEditor, GoEditor}, d \in DlvPaths}
    \cup
    {[group |-> "load", user |-> c, editor |-> ed, dlvConfig |-> dc, dlvPath |-> d] :
        c \in WithRequest({Scalars(x) : x \in LoadConfigs}), dc \in LoadDlvConfigs,
        ed \in {NoEditor, GoEditor}, d \in DlvPaths}
    \cup
    {[group |-> "cwd", user |-> c, editor |-> ed, dlvConfig |-> EmptyObj, dlvPath |-> d] :
        c \in WithRequest({Scalars(x) : x \in CwdConfigs}), ed \in {NoEditor, GoEditor}, d \in DlvPaths}
    \cup
    {[group |-> "flags", user |-> c, editor |-> ed, dlvConfig |-> EmptyObj, dlvPath |-> d] :
        c \in WithRequest(FlagConfigs), ed \in {NoEditor, GoEditor}, d \in DlvPaths}
    \cup
    {[group |-> "env", user |-> c, editor |-> ed, dlvConfig |-> EmptyObj, dlvPath |-> d] :
        c \in WithRequest(EnvConfigs), ed \in {NoEditor, GoEditor}, d \in DlvPaths}

\* The contents of the env files.
EnvFileSystems ==
    {[f \in {"/ws/a.env", "/ws/b.env"} |->
        IF f = "/ws/a.env" THEN [A |-> <<"2">>, B |-> <<"2">>] ELSE b] :
        b \in {[A |-> <<"4">>], [C |-> <<"7">>]}}

NoEnvInput == [processEnv |-> EmptyObj, toolsEnvVars |-> [def |-> FALSE, vars |-> EmptyObj],
               httpProxy |-> "", gopath |-> "", files |-> [f \in {} |-> EmptyObj], before |-> NoConfig]

\* What resolveDebugConfigurationWithSubstitutedVariables reads: process.env,
\* go.toolsEnvVars, http.proxy, the current GOPATH and the env files.  They
\* vary for the configurations of the env group.
EnvInputs(group) ==
    {[processEnv |-> [A |-> <<"1">>, HOME |-> <<"/home/user">>], toolsEnvVars |-> t, httpProxy |-> h,
      gopath |-> g, files |-> fs, before |-> NoConfig] :
        t \in IF group = "env"
                THEN {[def |-> FALSE, vars |-> EmptyObj], [def |-> TRUE, vars |-> [A |-> <<"9">>, GOBIN |-> <<"~/proj">>]]}
                ELSE {[def |-> FALSE, vars |-> EmptyObj]},
        h \in IF group = "env" THEN {"", "http://proxy"} ELSE {""},
        g \in IF group = "env" THEN {"", "/go"} ELSE {"/go"},
        fs \in IF group = "env" THEN EnvFileSystems ELSE {CHOOSE x \in EnvFileSystems : TRUE}}

-----------------------------------------------------------------------------
(* A debug-session start *)

\* Bound on the debug sessions started after the first one.
MaxSessions == 1

\* The session starts followed over several sessions, all with a Go file in
\* the editor: launch with gcflags in buildFlags and in env.GOFLAGS, in
\* buildFlags alone (dlv installed or not), in neither; launch and attach in
\* mode remote with a program.
SessionInputs ==
    {in \in ResolverInputs :
        /\ in.editor = GoEditor
        /\ \/ /\ in.group = "flags"
              /\ Get(in.user.p, "request") = "launch"
              /\ in.user.bf = <<"--gcflags=all=-N", "-l", "--other=1">>
              /\ \/ in.user.env = [GOFLAGS |-> <<"-gcflags=-l">>] /\ in.dlvPath = "/go/bin/dlv"
                 \/ ~Has(in.user.p, "env")
           \/ /\ in.group = "flags"
              /\ Get(in.user.p, "request") = "launch"
              /\ DOMAIN in.user.p = {"request"}
              /\ in.dlvPath = "/go/bin/dlv"
           \/ /\ in.group = "core"
              /\ in.dlvPath = "/go/bin/dlv"
              /\ Get(in.user.p, "request") \in {"launch", "attach"}
              /\ ~Has(in.user.p, "type")
              /\ Get(in.user.p, "mode") = "remote"
              /\ Has(in.user.p, "program")}

NoInput == [group |-> "none", user |-> NoConfig, editor |-> NoEditor, dlvConfig |-> EmptyObj, dlvPath |-> ""]

\* No session has started; the global state persisted by earlier sessions
\* holds any of the suppression flags.
ResolverInit ==
    /\ globalState \in {[set |-> TRUE, flags |-> F] : F \in SUBSET WarningKeys}
    /\ rpc = "idle"
    /\ input = NoInput
    /\ cfg = NoConfig
    /\ ret = "none"
    /\ shown = <<>>
    /\ open = {}
    /\ answers = <<>>
    /\ sessions = 0
    /\ toolPrompts = 0
    /\ envIn = NoEnvInput

\* No session is ever started.
ResolverIdle ==
    /\ globalState = [set |-> TRUE, flags |-> {}]
    /\ rpc = "idle"
    /\ input = NoInput
    /\ cfg = NoConfig
    /\ ret = "none"
    /\ shown = <<>>
    /\ open = {}
    /\ answers = <<>>
    /\ sessions = 0
    /\ toolPrompts = 0
    /\ envIn = NoEnvInput

\* VS Code calls resolveDebugConfiguration (lines 314-423) with the inputs in.
Resolve(in) ==
    /\ rpc = "idle"
    /\ LET r == resolveDebugConfiguration(in.user, in.editor, in.dlvConfig, in.dlvPath)
       IN  /\ cfg' = r.cfg
           /\ ret' = r.ret
           /\ shown' = shown \o showWarning(globalState, r.warn)
           /\ open' = open \cup ((Len(shown) + 1)..(Len(shown) + Len(showWarning(globalState, r.warn))))
           /\ answers' = answers \o [i \in 1..Len(showWarning(globalState, r.warn)) |-> "open"]
           /\ toolPrompts' = r.tool
           /\ rpc' = IF r.ret = "config" THEN "resolved" ELSE "aborted"
    /\ input' = in
    /\ UNCHANGED <<globalState, sessions, envIn>>
    /\ UNCHANGED outsideResolver

\* lines 452-456: the user answers the prompt of warning i with
\* "Don't Show Again" (never = TRUE), or dismisses it.
Answer(i, never) ==
    /\ i \in open
    /\ open' = open \ {i}
    /\ answers' = [answers EXCEPT ![i] = IF never THEN "never" ELSE "dismissed"]
    /\ globalState' = IF never THEN updateGlobalState(globalState, shown[i][1]) ELSE globalState
    /\ UNCHANGED <<rpc, input, cfg, ret, shown, sessions, toolPrompts, envIn>>
    /\ UNCHANGED outsideResolver

\* A host that goes on to substitution after resolveDebugConfiguration
\* returned undefined.
SubstituteAfterAbort(e) ==
    /\ rpc \in {"resolved", "aborted"}
    /\ cfg' = resolveDebugConfigurationWithSubstitutedVariables(cfg, e)
    /\ envIn' = [e EXCEPT !.before = cfg]
    /\ ret' = "config"
    /\ rpc' = "substituted"
    /\ UNCHANGED <<globalState, input, shown, open, answers, sessions, toolPrompts>>
    /\ UNCHANGED outsideResolver

\* VS Code calls resolveDebugConfigurationWithSubstitutedVariables (lines
\* 425-443) with the configuration resolveDebugConfiguration returned.
Substitute(e) ==
    /\ rpc = "resolved"
    /\ cfg' = resolveDebugConfigurationWithSubstitutedVariables(cfg, e)
    /\ envIn' = [e EXCEPT !.before = cfg]
    /\ ret' = "config"
    /\ rpc' = "substituted"
    /\ UNCHANGED <<globalState, input, shown, open, answers, sessions, toolPrompts>>
    /\ UNCHANGED outsideResolver

\* The debug session is over and the user is about to start another one,
\* in the same VS Code process or (restart) after restarting VS Code, which
\* takes the prompts still open off the screen.  The global Memento
\* outlives both.
NewSession(restart) ==
    /\ rpc # "idle"
    /\ sessions < MaxSessions
    /\ sessions' = sessions + 1
    /\ rpc' = "idle"
    /\ open' = IF restart THEN {} ELSE open
    /\ answers' = IF restart
                    THEN [i \in 1..Len(answers) |-> IF answers[i] = "open" THEN "dismissed" ELSE answers[i]]
                    ELSE answers
    /\ UNCHANGED <<globalState, input, cfg, ret, shown, toolPrompts, envIn>>
    /\ UNCHANGED outsideResolver

\* stateUtils.resetGlobalKey (part_000 lines 298-307): the user runs the
\* command and picks one of the keys stored in the global state.
ResetKey(item) ==
    /\ getFromGlobalState(globalState, item)
    /\ globalState' = clearGlobalState(globalState, item)
    /\ UNCHANGED <<rpc, input, cfg, ret, shown, open, answers, sessions, toolPrompts, envIn>>
    /\ UNCHANGED outsideResolver

ResolverNext ==
    \/ \E in \in ResolverInputs : Resolve(in)
    \/ \E i \in open, never \in BOOLEAN : Answer(i, never)
    \/ \E e \in EnvInputs(input.group) : Substitute(e)

-----------------------------------------------------------------------------
(* goModules: getModFolderPath and promptToUpdateToolForModules (part_001).  *)
(* Both are async functions: a call runs to its next await in one step, and  *)
(* calls interleave at the awaits.                                           *)

\* Bound on the getModFolderPath calls made.
NumModCalls == 2
ModCalls == 1..NumModCalls

\* The package paths asked about, and a file inside the module cache.
PkgPaths == {"/ws", "/ws/pkg"}
CachedPkg == "/go/pkg/mod/x"

\* getModuleCache()
moduleCache == "/go/pkg/mod"

\* path.dirname of what `go env GOMOD` prints, as runGoModEnv (lines 19-39)
\* resolves it: "" when go is missing, the command fails or there is no go.mod.
GoModDirs == {"", "/ws", "/ws/pkg"}

\* The tools promptToUpdateToolForModules is called for (lines 76 and 82).
Tools == {"gopls", "switchFormatToolToGoimports"}

\* The promptedToolsForModules objects: 0 is the one the global state holds
\* at the start, 2c-1 and 2c are the default values ({}) of the
\* getFromGlobalState calls (line 101) of the prompts made for call c.
ObjIds == 0..(2 * NumModCalls)
DefaultObj(c, tool) == IF tool = "gopls" THEN 2 * c - 1 ELSE 2 * c

NoModCall == [pc |-> "idle", pkg |-> "", ret |-> "none", ranGo |-> FALSE, formatTool |-> ""]
NoPromptCall == [pc |-> "idle", tool |-> "", obj |-> -1, chose |-> FALSE, then |-> FALSE]

\* No getModFolderPath call has been made; the global state holds a
\* promptedToolsForModules object or none.
ModulesInit ==
    /\ packagePathToGoModPathMap = [k \in PkgPaths \cup {CachedPkg} |-> ""]
    /\ modCall = [c \in ModCalls |-> NoModCall]
    /\ goConfig \in {[useLanguageServer |-> u, formatTool |-> f] : u \in {"true", "false"}, f \in {"goreturns", "goimports"}}
    /\ promptCall = [c \in ModCalls |-> NoPromptCall]
    /\ promptedToolsForCurrentSession = {}
    /\ \E T \in SUBSET Tools :
          /\ objTools = [o \in ObjIds |-> IF o = 0 THEN T ELSE {}]
          /\ storedObj = IF T = {} THEN -1 ELSE 0
    /\ promptsShown = <<>>

\* goModules is not in use.
ModulesIdle ==
    /\ packagePathToGoModPathMap = [k \in PkgPaths \cup {CachedPkg} |-> ""]
    /\ modCall = [c \in ModCalls |-> NoModCall]
    /\ goConfig = [useLanguageServer |-> "true", formatTool |-> "goimports"]
    /\ promptCall = [c \in ModCalls |-> NoPromptCall]
    /\ promptedToolsForCurrentSession = {}
    /\ objTools = [o \in ObjIds |-> {}]
    /\ storedObj = -1
    /\ promptsShown = <<>>

\* lines 98-104: promptToUpdateToolForModules up to its first await, for the
\* prompt made for call c.  getFromGlobalState returns the stored object, or
\* the default value, a new object, when none is stored.
PromptEnterAlways(c, tool, session, stored, objs) ==
    [pc |-> "version", tool |-> tool, obj |-> IF stored = -1 THEN DefaultObj(c, tool) ELSE stored,
     chose |-> FALSE, then |-> tool = "gopls"]
PromptEnter(c, tool, session, stored, objs) ==
    LET obj == IF stored = -1 THEN DefaultObj(c, tool) ELSE stored
    IN  IF tool \in session \/ tool \in objs[obj]
          THEN [pc |-> "done", tool |-> tool, obj |-> obj, chose |-> FALSE, then |-> tool = "gopls"]
          ELSE [pc |-> "version", tool |-> tool, obj |-> obj, chose |-> FALSE, then |-> tool = "gopls"]

\* lines 47-61: getModFolderPath is called for a file of package pkgPath and
\* runs to `await getGoVersion()` unless it returns before.
ModEnterNoCache(c, pkgPath, map) ==
    IF pkgPath = CachedPkg
      THEN [pc |-> "done", pkg |-> pkgPath, ret |-> moduleCache, ranGo |-> FALSE, formatTool |-> ""]
      ELSE [pc |-> "version", pkg |-> pkgPath, ret |-> "none", ranGo |-> FALSE, formatTool |-> ""]
ModEnter(c, pkgPath, map) ==
    IF Truthy(map[pkgPath])
      THEN [pc |-> "done", pkg |-> pkgPath, ret |-> map[pkgPath], ranGo |-> FALSE, formatTool |-> ""]
    ELSE IF pkgPath = CachedPkg
      THEN [pc |-> "done", pkg |-> pkgPath, ret |-> moduleCache, ranGo |-> FALSE, formatTool |-> ""]
    ELSE [pc |-> "version", pkg |-> pkgPath, ret |-> "none", ranGo |-> FALSE, formatTool |-> ""]

GetModFolderPath(c, pkgPath) ==
    /\ modCall[c].pc = "idle"
    /\ modCall' = [modCall EXCEPT ![c] = ModEnter(c, pkgPath, packagePathToGoModPathMap)]
    /\ UNCHANGED <<packagePathToGoModPathMap, goConfig, promptCall, promptedToolsForCurrentSession,
                   objTools, storedObj, promptsShown>>
    /\ UNCHANGED outsideModules

\* lines 61-66: getGoVersion resolved; below 1.11 (old) the call returns
\* undefined, else `go env GOMOD` is started.
ModVersion(c, old) ==
    /\ modCall[c].pc = "version"
    /\ modCall' = [modCall EXCEPT ![c] = IF old THEN [@ EXCEPT !.pc = "done", !.ret = "undefined"]
                                                ELSE [@ EXCEPT !.pc = "goenv", !.ranGo = TRUE]]
    /\ UNCHANGED <<packagePathToGoModPathMap, goConfig, promptCall, promptedToolsForCurrentSession,
                   objTools, storedObj, promptsShown>>
    /\ UNCHANGED outsideModules

\* lines 66-90: runGoModEnv resolved with r.  With a go.mod and the language
\* server off, promptToUpdateToolForModules('gopls') is called; the entry of
\* the package path is written and r returned.
ModGoEnv(c, r) ==
    /\ modCall[c].pc = "goenv"
    /\ modCall' = [modCall EXCEPT ![c] = [@ EXCEPT !.pc = "done", !.ret = IF r = "" THEN "undefined" ELSE r,
                                                      !.formatTool = goConfig.formatTool]]
    /\ packagePathToGoModPathMap' = [packagePathToGoModPathMap EXCEPT ![modCall[c].pkg] = r]
    /\ promptCall' = IF r # "" /\ goConfig.useLanguageServer = "false"
                       THEN [promptCall EXCEPT ![c] =
                                PromptEnter(c, "gopls", promptedToolsForCurrentSession, storedObj, objTools)]
                       ELSE promptCall
    /\ UNCHANGED <<goConfig, promptedToolsForCurrentSession, objTools, storedObj, promptsShown>>
    /\ UNCHANGED outsideModules

\* lines 104-105: getGoVersion resolved and showInformationMessage is called.
PromptShow(c) ==
    /\ promptCall[c].pc = "version"
    /\ promptCall' = [promptCall EXCEPT ![c].pc = "shown"]
    /\ promptsShown' = Append(promptsShown, promptCall[c].tool)
    /\ UNCHANGED <<packagePathToGoModPathMap, modCall, goConfig, promptedToolsForCurrentSession, objTools, storedObj>>
    /\ UNCHANGED outsideModules

\* lines 126-131: the tool is flagged in the object the call read and the
\* object is stored under promptedToolsForModules.
FlagTool(objs, obj, tool) == [objs EXCEPT ![obj] = @ \cup {tool}]

\* lines 106-138: the user's selection.  Update goes on to await
\* installTools; Don't show again flags the tool; Later and closing the
\* prompt put the tool in the session's set.
PromptSelect(c, selected) ==
    /\ promptCall[c].pc = "shown"
    /\ promptCall' = [promptCall EXCEPT ![c].pc = IF selected = "Update" THEN "installing" ELSE "done"]
    /\ objTools' = IF selected = "Don't show again"
                     THEN FlagTool(objTools, promptCall[c].obj, promptCall[c].tool) ELSE objTools
    /\ storedObj' = IF selected = "Don't show again" THEN promptCall[c].obj ELSE storedObj
    /\ promptedToolsForCurrentSession' =
          IF selected \in {"Later", "undefined"}
            THEN promptedToolsForCurrentSession \cup {promptCall[c].tool}
            ELSE promptedToolsForCurrentSession
    /\ UNCHANGED <<packagePathToGoModPathMap, modCall, goConfig, promptsShown>>
    /\ UNCHANGED outsideModules

\* lines 113-128: installTools resolved; the setting of the tool is updated,
\* the tool flagged and the object stored.
PromptInstalled(c) ==
    /\ promptCall[c].pc = "installing"
    /\ promptCall' = [promptCall EXCEPT ![c].pc = "done", ![c].chose = TRUE]
    /\ goConfig' = IF promptCall[c].tool = "gopls"
                     THEN [goConfig EXCEPT !.useLanguageServer = "true"]
                     ELSE [goConfig EXCEPT !.formatTool = "goimports"]
    /\ objTools' = FlagTool(objTools, promptCall[c].obj, promptCall[c].tool)
    /\ storedObj' = promptCall[c].obj
    /\ UNCHANGED <<packagePathToGoModPathMap, modCall, promptedToolsForCurrentSession, promptsShown>>
    /\ UNCHANGED outsideModules

\* lines 77-83: the then-callback of the gopls prompt of call c; unless the
\* user chose to update, and with formatTool goreturns in the settings the
\* call read, promptToUpdateToolForModules('switchFormatToolToGoimports') is
\* called.
PromptThen(c) ==
    /\ promptCall[c].pc = "done" /\ promptCall[c].then
    /\ promptCall' = [promptCall EXCEPT ![c] =
          IF ~promptCall[c].chose /\ modCall[c].formatTool = "goreturns"
            THEN PromptEnter(c, "switchFormatToolToGoimports", promptedToolsForCurrentSession, storedObj, objTools)
            ELSE [@ EXCEPT !.then = FALSE]]
    /\ UNCHANGED <<packagePathToGoModPathMap, modCall, goConfig, promptedToolsForCurrentSession,
                   objTools, storedObj, promptsShown>>
    /\ UNCHANGED outsideModules

\* stateUtils.resetGlobalKey (part_000 lines 298-307), the user picking
\* promptedToolsForModules: nothing is stored under the key any more.
ResetPromptedTools ==
    /\ storedObj # -1
    /\ storedObj' = -1
    /\ UNCHANGED <<packagePathToGoModPathMap, modCall, goConfig, promptCall, promptedToolsForCurrentSession,
                   objTools, promptsShown>>
    /\ UNCHANGED outsideModules

ModulesNext ==
    \/ \E c \in ModCalls, pkgPath \in PkgPaths \cup {CachedPkg} : GetModFolderPath(c, pkgPath)
    \/ \E c \in ModCalls, old \in BOOLEAN : ModVersion(c, old)
    \/ \E c \in ModCalls, r \in GoModDirs : ModGoEnv(c, r)
    \/ \E c \in ModCalls : PromptShow(c)
    \/ \E c \in ModCalls, selected \in {"Update", "Later", "Don't show again", "undefined"} : PromptSelect(c, selected)
    \/ \E c \in ModCalls : PromptInstalled(c)
    \/ \E c \in ModCalls : PromptThen(c)
    \/ ResetPromptedTools

-----------------------------------------------------------------------------
(* goEnv: the environment objects, by identity *)

\* Bound on the calls of toolInstallationEnvironment and toolExecutionEnvironment.
MaxEnvCalls == 2

\* process.env when the extension starts.
ProcessEnv == [A |-> <<"1">>, GOOS |-> <<"linux">>, GOFLAGS |-> <<"-mod=vendor">>]

\* What a call reads from the settings: go.toolsEnvVars, http.proxy and the
\* current GOPATH (getCurrentGoPath()).
EnvSettings ==
    {[processEnv |-> ProcessEnv, toolsEnvVars |-> t, httpProxy |-> "", gopath |-> g,
      files |-> [f \in {} |-> EmptyObj], before |-> NoConfig] :
        t \in {[def |-> FALSE, vars |-> EmptyObj], [def |-> TRUE, vars |-> [A |-> <<"9">>, GOBIN |-> <<"~/proj">>]]},
        g \in {"", "/go"}}

\* getToolsGopath(): go.toolsGopath, if set.
ToolsGopaths == {"", "/tools"}

\* What line 439 of the resolver merges into the object it was given.
MergedEnvs == {[A |-> <<"5">>], [GOPATH |-> <<"/other">>, Z |-> <<"1">>]}

\* delete env[k] for every k of ks
Delete(o, ks) == [k \in DOMAIN o \ ks |-> o[k]]

\* lines 20-26: the GOPATH to install tools in
InstallGopath(e, toolsGopath) == IF Truthy(toolsGopath) THEN toolsGopath ELSE e.gopath

\* lines 15-53, the object: newEnvironment() with GOBIN emptied when
\* go.toolsGopath is set, GOPATH set, and the build-affecting variables deleted.
InstallEnvObject(e, toolsGopath) ==
    LET env0 == newEnvironment(e)
        env1 == IF Truthy(toolsGopath) THEN Put(env0, "GOBIN", <<>>) ELSE env0
    IN  IF ~Truthy(InstallGopath(e, toolsGopath))
          THEN env1
          ELSE Delete(Put(env1, "GOPATH", <<InstallGopath(e, toolsGopath)>>),
                      {"GOOS", "GOARCH", "GOROOT", "GOFLAGS", "GOENV"})

\* lines 27-40 and 52: what toolInstallationEnvironment returns, the object
\* with identity id or undefined (0).
InstallReturn(e, toolsGopath, id) == IF ~Truthy(InstallGopath(e, toolsGopath)) THEN 0 ELSE id

EnvIdle ==
    /\ envObjs = <<ProcessEnv>>
    /\ envCalls = <<>>

\* toolInstallationEnvironment() (lines 15-53): newEnvironment() makes a new
\* object (line 68: Object.assign({}, ...)), which the call returns unless no
\* GOPATH is known.
ToolInstallationEnvironment(e, toolsGopath) ==
    /\ Len(envCalls) < MaxEnvCalls
    /\ LET obj == InstallEnvObject([e EXCEPT !.processEnv = envObjs[1]], toolsGopath)
           id == Len(envObjs) + 1
       IN  /\ envObjs' = Append(envObjs, obj)
           /\ envCalls' = Append(envCalls, [fn |-> "toolInstallationEnvironment",
                                            ret |-> InstallReturn(e, toolsGopath, id),
                                            made |-> obj, merged |-> FALSE])
    /\ UNCHANGED outsideEnv

\* toolExecutionEnvironment(uri) (lines 57-64)
ToolExecutionEnvironment(e) ==
    /\ Len(envCalls) < MaxEnvCalls
    /\ LET obj == toolExecutionEnvironment([e EXCEPT !.processEnv = envObjs[1]])
           id == Len(envObjs) + 1
       IN  /\ envObjs' = Append(envObjs, obj)
           /\ envCalls' = Append(envCalls, [fn |-> "toolExecutionEnvironment", ret |-> id,
                                            made |-> obj, merged |-> FALSE])
    /\ UNCHANGED outsideEnv

\* goLint.ts line 439: Object.assign(goToolsEnvVars, fileEnvs, env) writes
\* into the object call i returned.
MergeIntoEnv(i, m) ==
    /\ i \in 1..Len(envCalls)
    /\ envCalls[i].ret # 0
    /\ ~envCalls[i].merged
    /\ envObjs' = [envObjs EXCEPT ![envCalls[i].ret] = Assign(@, m)]
    /\ envCalls' = [envCalls EXCEPT ![i].merged = TRUE]
    /\ UNCHANGED outsideEnv

EnvNext ==
    \/ \E e \in EnvSettings, t \in ToolsGopaths : ToolInstallationEnvironment(e, t)
    \/ \E e \in EnvSettings : ToolExecutionEnvironment(e)
    \/ \E i \in 1..MaxEnvCalls, m \in MergedEnvs : MergeIntoEnv(i, m)

-----------------------------------------------------------------------------
(* normalizeSeparators and getCheckForToolsUpdatesConfig *)

\* getConfiguredTools has not been called: the settings as installed.
NoToolsInput ==
    [goVersion |-> <<12, 0>>,
     goConfig |-> [useLanguageServer |-> "true", docsTool |-> "godoc", formatTool |-> "goreturns", lintTool |-> "golint"],
     arch64 |-> TRUE, liveErrors |-> FALSE]

\* A string is the sequence of its characters.
\* Bound on the length of the paths tried exhaustively.
MaxPathLen == 4

\* Bound on the applications of a function to its own result.
MaxApplications == 2

\* The characters of the paths tried exhaustively: drive letters, the colon,
\* both separators and the dot.
PathChars == {"c", "C", ":", "/", "\\", "."}

\* The cases of the NormalizeSeparators tests (lines 53-67, 75-100, 108-133),
\* each distinct input once.
SepTests ==
    {[input |-> <<"p", "a", "t", "h", "/", "t", "o", "/", "f", "i", "l", "e">>,
      want  |-> <<"p", "a", "t", "h", "/", "t", "o", "/", "f", "i", "l", "e">>],
     [input |-> <<"\\", "p", "a", "t", "h", "\\", "t", "o", "\\", "f", "i", "l", "e">>,
      want  |-> <<"/", "p", "a", "t", "h", "/", "t", "o", "/", "f", "i", "l", "e">>],
     [input |-> <<"/", "p", "a", "t", "h", "/", "t", "o", "\\", "f", "i", "l", "e">>,
      want  |-> <<"/", "p", "a", "t", "h", "/", "t", "o", "/", "f", "i", "l", "e">>],
     [input |-> <<"C", ":", "/", "p", "a", "t", "h", "/", "t", "o", "/", "f", "i", "l", "e">>,
      want  |-> <<"C", ":", "/", "p", "a", "t", "h", "/", "t", "o", "/", "f", "i", "l", "e">>],
     [input |-> <<"c", ":", "/", "p", "a", "t", "h", "/", "t", "o", "/", "f", "i", "l", "e">>,
      want  |-> <<"C", ":", "/", "p", "a", "t", "h", "/", "t", "o", "/", "f", "i", "l", "e">>],
     [input |-> <<"C", ":", "\\", "p", "a", "t", "h", "\\", "t", "o", "\\", "f", "i", "l", "e">>,
      want  |-> <<"C", ":", "/", "p", "a", "t", "h", "/", "t", "o", "/", "f", "i", "l", "e">>],
     [input |-> <<"c", ":", "\\", "p", "a", "t", "h", "\\", "t", "o", "\\", "f", "i", "l", "e">>,
      want  |-> <<"C", ":", "/", "p", "a", "t", "h", "/", "t", "o", "/", "f", "i", "l", "e">>],
     [input |-> <<".", ".", "/", "p", "a", "t", "h", "/", "t", "o", "/", "f", "i", "l", "e">>,
      want  |-> <<".", ".", "/", "p", "a", "t", "h", "/", "t", "o", "/", "f", "i", "l", "e">>],
     [input |-> <<".", "/", "p", "a", "t", "h", "/", "t", "o", "/", "f", "i", "l", "e">>,
      want  |-> <<".", "/", "p", "a", "t", "h", "/", "t", "o", "/", "f", "i", "l", "e">>],
     [input |-> <<".", ".", "\\", "p", "a", "t", "h", "\\", "t", "o", "\\", "f", "i", "l", "e">>,
      want  |-> <<".", ".", "/", "p", "a", "t", "h", "/", "t", "o", "/", "f", "i", "l", "e">>],
     [input |-> <<".", "\\", "p", "a", "t", "h", "\\", "t", "o", "\\", "f", "i", "l", "e">>,
      want  |-> <<".", "/", "p", "a", "t", "h", "/", "t", "o", "/", "f", "i", "l", "e">>],
     [input |-> <<"/", "p", "a", "t", "h", "/", "t", "o", "/", ".", ".", "/", "f", "i", "l", "e">>,
      want  |-> <<"/", "p", "a", "t", "h", "/", "t", "o", "/", ".", ".", "/", "f", "i", "l", "e">>],
     [input |-> <<"c", ":", "\\", "p", "a", "t", "h", "\\", "t", "o", "\\", ".", ".", "\\", "f", "i", "l", "e">>,
      want  |-> <<"C", ":", "/", "p", "a", "t", "h", "/", "t", "o", "/", ".", ".", "/", "f", "i", "l", "e">>]}

\* The paths normalizeSeparators is applied to.
SepInputs ==
    UNION {[1..n -> PathChars] : n \in 0..MaxPathLen} \cup {tc.input : tc \in SepTests}

\* String.prototype.toUpperCase on one character.
LowerCase == <<"a", "c", "e", "f", "h", "i", "l", "o", "p", "t">>
UpperCase == <<"A", "C", "E", "F", "H", "I", "L", "O", "P", "T">>
toUpperCase(ch) ==
    IF \E i \in 1..Len(LowerCase) : LowerCase[i] = ch
      THEN UpperCase[CHOOSE i \in 1..Len(LowerCase) : LowerCase[i] = ch]
      ELSE ch

\* The path starts with a drive: its second character is its first colon.
HasDrive(filePath) == Len(filePath) >= 2 /\ filePath[2] = ":" /\ filePath[1] # ":"

\* Separators replaced, the case of the drive letter kept.
normalizeSeparatorsKeepsCase(filePath) ==
    [i \in 1..Len(filePath) |-> IF filePath[i] = "\\" THEN "/" ELSE filePath[i]]

\* normalizeSeparators(filePath): the drive letter of a path that starts with
\* a drive upper-cased, then every backslash replaced by a forward slash.
normalizeSeparators(filePath) ==
    LET cased == IF HasDrive(filePath)
                   THEN [i \in 1..Len(filePath) |-> IF i = 1 THEN toUpperCase(filePath[i]) ELSE filePath[i]]
                   ELSE filePath
    IN  [i \in 1..Len(cased) |-> IF cased[i] = "\\" THEN "/" ELSE cased[i]]

\* The test harness: a path is chosen, normalizeSeparators is applied to it
\* and then to what it returned.
SeparatorsInit ==
    /\ sepIn \in SepInputs
    /\ sepOut = <<>>
    /\ updIn = [legacy |-> "true", globalValue |-> "undefined", workspaceValue |-> "undefined"]
    /\ updOut = <<>>
    /\ toolsIn = NoToolsInput
    /\ toolsOut = <<>>

NormalizeSeparators ==
    /\ Len(sepOut) < MaxApplications
    /\ sepOut' = Append(sepOut, normalizeSeparators(IF sepOut = <<>> THEN sepIn ELSE sepOut[Len(sepOut)]))
    /\ UNCHANGED <<sepIn, updIn, updOut, toolsIn, toolsOut>>
    /\ UNCHANGED outsideUtil

\* The values of go.toolsManagement.checkForUpdates, and its default
\* (part_004 line 25).
CheckForUpdatesValues == {"proxy", "local", "off"}
CheckForUpdatesDefault == "proxy"

\* The configurations getCheckForToolsUpdatesConfig is called with: the
\* legacy go.useGoProxyToCheckForToolUpdates as gocfg.get gives it, and the
\* globalValue and workspaceValue gocfg.inspect gives for the new setting.
GoCfgs ==
    [legacy : {"true", "false", "undefined"},
     globalValue : CheckForUpdatesValues \cup {"undefined"},
     workspaceValue : CheckForUpdatesValues \cup {"undefined"}]

\* gocfg.get('toolsManagement.checkForUpdates'): the workspace value, else
\* the global value, else the default.
GetCheckForUpdates(gocfg) ==
    IF gocfg.workspaceValue # "undefined" THEN gocfg.workspaceValue
    ELSE IF gocfg.globalValue # "undefined" THEN gocfg.globalValue
    ELSE CheckForUpdatesDefault

\* The legacy setting deciding alone.
getCheckForToolsUpdatesConfigLegacyWins(gocfg) ==
    IF gocfg.legacy = "false" THEN "local" ELSE GetCheckForUpdates(gocfg)

\* getCheckForToolsUpdatesConfig(gocfg): 'local' when the legacy setting is
\* false and neither a global nor a workspace value of the new setting
\* exists, else the value of the new setting.
getCheckForToolsUpdatesConfig(gocfg) ==
    IF gocfg.legacy = "false" /\ gocfg.globalValue = "undefined" /\ gocfg.workspaceValue = "undefined"
      THEN "local"
      ELSE GetCheckForUpdates(gocfg)

\* The test harness: a configuration is chosen and the function is called
\* with it, once and again.
CheckForUpdatesInit ==
    /\ sepIn = <<>>
    /\ sepOut = <<>>
    /\ updIn \in GoCfgs
    /\ updOut = <<>>
    /\ toolsIn = NoToolsInput
    /\ toolsOut = <<>>

GetCheckForToolsUpdatesConfig ==
    /\ Len(updOut) < MaxApplications
    /\ updOut' = Append(updOut, getCheckForToolsUpdatesConfig(updIn))
    /\ UNCHANGED <<sepIn, sepOut, updIn, toolsIn, toolsOut>>
    /\ UNCHANGED outsideUtil

\* allToolsInformation (lines 188-403): the replacedByGopls mark of every
\* tool, "undefined" for a tool declared without one.
allToolsInformation ==
    [gocode |-> "true", gopkgs |-> "false", guru |-> "true", gorename |-> "true",
     gotests |-> "false", gomodifytags |-> "false", impl |-> "false", fillstruct |-> "true",
     goplay |-> "false", godoctor |-> "true", dlv |-> "false", godef |-> "true", gogetdoc |-> "true",
     gofumports |-> "true", gofumpt |-> "true", goimports |-> "true", goreturns |-> "true",
     goformat |-> "true", golint |-> "false", staticcheck |-> "false", revive |-> "undefined",
     gopls |-> "false"]
    @@ ("gocode-gomod" :> "true") @@ ("go-outline" :> "false") @@ ("go-symbols" :> "true")
    @@ ("golangci-lint" :> "false") @@ ("gotype-live" :> "true")

\* lines 129-142: the tools that are always suggested.
DefaultTools ==
    <<"gocode", "gopkgs", "go-outline", "go-symbols", "guru", "gorename", "gotests",
      "gomodifytags", "impl", "fillstruct", "goplay", "godoctor">>

\* GoVersion.gt / semver: a Go version is <<minor, patch>> of 1.minor.patch.
VersionGt(v, minor) == v[1] > minor \/ (v[1] = minor /\ v[2] > 0)

\* line 116
ToolsUseLanguageServer(in) == Truthy(in.goConfig.useLanguageServer) /\ VersionGt(in.goVersion, 11)

\* lines 119-126: maybeAddTool(name)
maybeAddToolUnfiltered(tools, name, useLanguageServer) ==
    IF name \in DOMAIN allToolsInformation THEN Append(tools, name) ELSE tools
maybeAddTool(tools, name, useLanguageServer) ==
    IF name \in DOMAIN allToolsInformation
         /\ (~useLanguageServer \/ ~Truthy(allToolsInformation[name]))
      THEN Append(tools, name)
      ELSE tools

RECURSIVE maybeAddTools(_, _, _)
maybeAddTools(tools, names, useLanguageServer) ==
    IF names = <<>> THEN tools
    ELSE maybeAddTools(maybeAddTool(tools, Head(names), useLanguageServer), Tail(names), useLanguageServer)

\* lines 128-183: the names maybeAddTool is called with, in order.
ToolCandidates(in) ==
    DefaultTools
    \o (IF in.arch64 THEN <<"dlv">> ELSE <<>>)
    \o (IF VersionGt(in.goVersion, 10) THEN <<"gocode-gomod">> ELSE <<>>)
    \o <<IF in.goConfig.docsTool = "godoc" THEN "godef" ELSE in.goConfig.docsTool>>
    \o <<in.goConfig.formatTool, in.goConfig.lintTool>>
    \o (IF ToolsUseLanguageServer(in) THEN <<"gopls">> ELSE <<>>)
    \o (IF in.liveErrors THEN <<"gotype-live">> ELSE <<>>)

\* getConfiguredTools(goVersion, goConfig) (lines 111-186)
getConfiguredTools(in) == maybeAddTools(<<>>, ToolCandidates(in), ToolsUseLanguageServer(in))

\* What getConfiguredTools is called with: the Go version, the settings it
\* reads, whether process.arch is one that supports dlv, goLiveErrorsEnabled().
ToolsInputs ==
    [goVersion : {<<10, 0>>, <<11, 0>>, <<11, 4>>, <<12, 0>>},
     goConfig : [useLanguageServer : {"true", "false"},
                 docsTool : {"godoc", "gogetdoc", "guru"},
                 formatTool : {"goreturns", "goimports", "gofmt", "goformat"},
                 lintTool : {"golint", "revive", "staticcheck"}],
     arch64 : BOOLEAN,
     liveErrors : BOOLEAN]

\* A caller: the settings are chosen and getConfiguredTools is called.
ConfiguredToolsInit ==
    /\ sepIn = <<>>
    /\ sepOut = <<>>
    /\ updIn = [legacy |-> "true", globalValue |-> "undefined", workspaceValue |-> "undefined"]
    /\ updOut = <<>>
    /\ toolsIn \in ToolsInputs
    /\ toolsOut = <<>>

GetConfiguredTools ==
    /\ Len(toolsOut) < MaxApplications
    /\ toolsOut' = Append(toolsOut, getConfiguredTools(toolsIn))
    /\ UNCHANGED <<sepIn, sepOut, updIn, updOut, toolsIn>>
    /\ UNCHANGED outsideUtil

UtilIdle ==
    /\ sepIn = <<>>
    /\ sepOut = <<>>
    /\ updIn = [legacy |-> "true", globalValue |-> "undefined", workspaceValue |-> "undefined"]
    /\ updOut = <<>>
    /\ toolsIn = NoToolsInput
    /\ toolsOut = <<>>

-----------------------------------------------------------------------------
(* lintCode and goLint *)

\* Bound on the lintCode and goLint calls made from outside.
MaxLintCalls == 3

\* vscode.window.activeTextEditor: none, a Go file, a file of another language.
LintEditors == {"none", "go", "other"}

\* The scope argument of lintCode and goLint; "package" stands for 'file'
\* and undefined as well, which differ only in the arguments of the tool.
LintScopes == {"workspace", "package"}

LintIdle ==
    /\ epoch = 0
    /\ tokenSource = 0
    /\ running = FALSE
    /\ cancelled = {}
    /\ lintRuns = <<>>
    /\ lintCodeCalls = <<>>

\* The calls made from outside so far.
LintCallsMade ==
    Len(lintCodeCalls) + Cardinality({e \in 1..Len(lintRuns) : lintRuns[e].via = "goLint"})

\* lines 68-71: the token source goLint cancels, if any.
LintCancelsNothing(ts, run) == {}
LintCancels(ts, run) == IF ts # 0 /\ run THEN {ts} ELSE {}

\* goLint (lines 61-156) up to its return, called by `via`; absolute is
\* path.isAbsolute(cwd).  A call that passes line 80 sets running and leaves
\* the promise of runTool pending.
goLintCall(via, absolute) ==
    /\ epoch' = epoch + 1
    /\ cancelled' = cancelled \cup LintCancels(tokenSource, running)
    /\ tokenSource' = epoch + 1
    /\ running' = IF absolute THEN TRUE ELSE running
    /\ lintRuns' = Append(lintRuns, [token |-> epoch + 1, via |-> via,
                                     state |-> IF absolute THEN "running" ELSE "early",
                                     ui |-> IF ~absolute /\ via = "lintCode" THEN "handled" ELSE "none"])

\* goLint called by another caller than lintCode (lint on save).
GoLint(absolute) ==
    /\ LintCallsMade < MaxLintCalls
    /\ goLintCall("goLint", absolute)
    /\ UNCHANGED lintCodeCalls
    /\ UNCHANGED outsideLint

\* lines 23-35: how lintCode gets to its goLint call, or why it does not.
\* With no editor and scope 'workspace' line 25 lets the call through and
\* line 29 reads editor.document of undefined, a TypeError.
LintCodeGate(scope, editor) ==
    IF editor = "none" /\ scope # "workspace" THEN "noEditorMessage"
    ELSE IF editor = "none" THEN "typeError"
    ELSE IF editor # "go" /\ scope # "workspace" THEN "notGoMessage"
    ELSE "goLint"

\* lintCode(scope) (lines 23-52)
LintCode(scope, editor, absolute) ==
    /\ LintCallsMade < MaxLintCalls
    /\ lintCodeCalls' = Append(lintCodeCalls, [scope |-> scope, editor |-> editor,
                                               outcome |-> LintCodeGate(scope, editor),
                                               epoch |-> IF LintCodeGate(scope, editor) = "goLint" THEN epoch + 1 ELSE 0])
    /\ IF LintCodeGate(scope, editor) = "goLint"
         THEN goLintCall("lintCode", absolute)
         ELSE UNCHANGED <<epoch, tokenSource, running, cancelled, lintRuns>>
    /\ UNCHANGED outsideLint

\* lines 146-153 and 43-51: the promise of runTool of the call of epoch e
\* settles.  Fulfilled, the then-callback clears running if no goLint call
\* was made since (line 148); rejected, the then-callback does not run.
\* lintCode's handlers pass the result on or show the error.
LintSettles(e, ok) ==
    /\ e \in 1..Len(lintRuns)
    /\ lintRuns[e].state = "running"
    /\ lintRuns' = [lintRuns EXCEPT ![e].state = IF ok THEN "fulfilled" ELSE "rejected",
                                    ![e].ui = IF lintRuns[e].via # "lintCode" THEN "none"
                                              ELSE IF ok THEN "handled" ELSE "error"]
    /\ running' = IF ok /\ e = epoch THEN FALSE ELSE running
    /\ UNCHANGED <<epoch, tokenSource, cancelled, lintCodeCalls>>
    /\ UNCHANGED outsideLint

LintNext ==
    \/ \E absolute \in BOOLEAN : GoLint(absolute)
    \/ \E scope \in LintScopes, editor \in LintEditors, absolute \in BOOLEAN : LintCode(scope, editor, absolute)
    \/ \E e \in 1..MaxLintCalls, ok \in BOOLEAN : LintSettles(e, ok)

-----------------------------------------------------------------------------
(* Specifications *)

Init == MutexInit /\ ResolverInit /\ ModulesIdle /\ EnvIdle /\ LintIdle /\ UtilIdle

Next == MutexNext \/ ResolverNext

Spec == Init /\ [][Next]_vars

\* The Mutex alone: no debug session is started.
InitMutex == MutexInit /\ ResolverIdle /\ ModulesIdle /\ EnvIdle /\ LintIdle /\ UtilIdle

SpecMutex == InitMutex /\ [][MutexNext]_vars

FairSpecMutex == InitMutex /\ [][MutexNext]_vars /\ MutexFairness

\* The Mutex with lock() callers and re-entrant functions.
SpecLock == InitMutex /\ [][LockNext]_vars

\* The same with the event loop's fairness; a lock() caller of kind "lock"
\* does call its release handle.
FairSpecHold ==
    /\ InitMutex /\ [][HoldNext]_vars
    /\ MutexFairness
    /\ \A c \in Calls : WF_vars(Unlock(c))

\* Release handles called repeatedly.
SpecUnlock == InitMutex /\ [][UnlockNext]_vars

\* Settling functions under the event loop's fairness.
FairSpecThrow == InitMutex /\ [][ThrowNext]_vars /\ MutexFairness

\* One debug-session start; the Mutex is not in use.
SpecResolver == Init /\ [][ResolverNext]_vars

\* goEnv alone.
SpecEnv == InitMutex /\ [][EnvNext]_vars

\* normalizeSeparators alone.
InitSeparators == MutexInit /\ ResolverIdle /\ ModulesIdle /\ EnvIdle /\ LintIdle /\ SeparatorsInit

SpecSeparators == InitSeparators /\ [][NormalizeSeparators]_vars

\* getCheckForToolsUpdatesConfig alone.
InitCheckForUpdates == MutexInit /\ ResolverIdle /\ ModulesIdle /\ EnvIdle /\ LintIdle /\ CheckForUpdatesInit

SpecCheckForUpdates == InitCheckForUpdates /\ [][GetCheckForToolsUpdatesConfig]_vars

\* getConfiguredTools alone.
InitConfiguredTools == MutexInit /\ ResolverIdle /\ ModulesIdle /\ EnvIdle /\ LintIdle /\ ConfiguredToolsInit

SpecConfiguredTools == InitConfiguredTools /\ [][GetConfiguredTools]_vars

\* lintCode and goLint alone.
SpecLint == InitMutex /\ [][LintNext]_vars

\* goModules alone.
InitModules == MutexInit /\ ResolverIdle /\ ModulesInit /\ EnvIdle /\ LintIdle /\ UtilIdle

SpecModules == InitModules /\ [][ModulesNext]_vars

\* The operations on the persisted global state together: debug sessions
\* with warnings, the reset command, and one getModFolderPath call with the
\* prompts it makes.  At the start nothing is persisted, and VS Code is
\* restarted between sessions.
StateInputs ==
    {in \in SessionInputs :
        \/ Has(in.user.p, "env") /\ in.dlvPath = "/go/bin/dlv"
        \/ Get(in.user.p, "mode") = "remote" /\ Get(in.user.p, "request") = "launch"}

OneModCall == {CHOOSE c \in ModCalls : TRUE}

InitState ==
    /\ MutexInit
    /\ ResolverIdle
    /\ ModulesInit
    /\ goConfig = [useLanguageServer |-> "false", formatTool |-> "goreturns"]
    /\ storedObj = -1
    /\ EnvIdle
    /\ LintIdle
    /\ UtilIdle

StateNext ==
    \/ \E in \in StateInputs : Resolve(in)
    \/ \E i \in open, never \in BOOLEAN : Answer(i, never)
    \/ NewSession(TRUE)
    \/ \E item \in WarningKeys : ResetKey(item)
    \/ \E c \in OneModCall, pkgPath \in PkgPaths : GetModFolderPath(c, pkgPath)
    \/ \E c \in OneModCall : ModVersion(c, FALSE)
    \/ \E c \in OneModCall, r \in GoModDirs : ModGoEnv(c, r)
    \/ \E c \in OneModCall : PromptShow(c)
    \/ \E c \in OneModCall, selected \in {"Update", "Later", "Don't show again", "undefined"} : PromptSelect(c, selected)
    \/ \E c \in OneModCall : PromptInstalled(c)
    \/ \E c \in OneModCall : PromptThen(c)
    \/ ResetPromptedTools

SpecState == InitState /\ [][StateNext]_vars

\* Debug sessions one after the other, with the commands the user can run
\* in between; the Mutex is not in use.
SessionsNext ==
    \/ \E in \in SessionInputs : Resolve(in)
    \/ \E i \in open, never \in BOOLEAN : Answer(i, never)
    \/ \E e \in EnvInputs("none") : Substitute(e)
    \/ \E restart \in BOOLEAN : NewSession(restart)
    \/ \E item \in WarningKeys : ResetKey(item)

SpecSessions == Init /\ [][SessionsNext]_vars

-----------------------------------------------------------------------------
(* Claims about the debug configuration resolver *)

\* The user configuration has a request.
UserHasRequest == input.user.def /\ Truthy(Get(input.user.p, "request"))

\* The active editor shows a Go file.
EditorShowsGo == input.editor.present /\ input.editor.languageId = "go"

\* The mode auto stands for, given the active editor.
AutoMode == IF input.editor.present /\ input.editor.fileName.tail = "_test.go" THEN "test" ELSE "debug"

\* C6: a configuration returned by resolveDebugConfiguration has a type and a
\* request, and its mode is not "auto".
C6_TypeRequestMode ==
    (rpc = "resolved" /\ ret = "config") =>
        /\ cfg.def
        /\ Has(cfg.p, "type") /\ Truthy(cfg.p["type"])
        /\ Has(cfg.p, "request") /\ Truthy(cfg.p["request"])
        /\ Get(cfg.p, "mode") # "auto"

\* C6 witness: a configuration was returned for a user configuration that
\* has a request and neither type nor mode.
C6_Witness ==
    /\ rpc = "resolved" /\ ret = "config"
    /\ UserHasRequest /\ ~Has(input.user.p, "type") /\ ~Has(input.user.p, "mode")

\* C7: after resolveDebugConfigurationWithSubstitutedVariables the envFile
\* property of the configuration is undefined.
C7_EnvFileCleared ==
    rpc = "substituted" => (ret = "config" /\ Get(cfg.p, "envFile") = "undefined" /\ cfg.envFile = <<>>)

\* C7 witness: the configuration named a list of two env files.
C7_Witness ==
    /\ rpc = "substituted"
    /\ Get(envIn.before.p, "envFile") = "array"
    /\ Len(envIn.before.envFile) = 2

\* The inline env the configuration had when the last phase was entered.
InlineEnv == IF Has(envIn.before.p, "env") THEN envIn.before.env ELSE EmptyObj

\* The env files the configuration named, in order, and their contents.
EnvFileAt(i) == envIn.files[envIn.before.envFile[i]]

\* C8: the resolved env has exactly the variables of the tool-execution
\* environment, of the env files and of the inline env; each has the inline
\* value if there is one, else the value of the last env file that sets it,
\* else the ambient value.  Ambient A=1, file A=2 B=2, inline B=3: A=2, B=3.
C8_EnvPrecedence ==
    rpc = "substituted" =>
        LET ambient == toolExecutionEnvironment(envIn)
            n == Len(envIn.before.envFile)
            inFiles == UNION {DOMAIN EnvFileAt(i) : i \in 1..n}
        IN  /\ Has(cfg.p, "env")
            /\ DOMAIN cfg.env = DOMAIN ambient \cup inFiles \cup DOMAIN InlineEnv
            /\ \A k \in DOMAIN cfg.env :
                  cfg.env[k] =
                      IF k \in DOMAIN InlineEnv THEN InlineEnv[k]
                      ELSE IF k \in inFiles
                        THEN LET last == CHOOSE i \in 1..n :
                                            /\ k \in DOMAIN EnvFileAt(i)
                                            /\ \A j \in (i + 1)..n : k \notin DOMAIN EnvFileAt(j)
                             IN  EnvFileAt(last)[k]
                      ELSE ambient[k]
            /\ (/\ Get(ambient, "A") = <<"1">>
                /\ n = 1 /\ EnvFileAt(1) = [A |-> <<"2">>, B |-> <<"2">>]
                /\ InlineEnv = [B |-> <<"3">>])
               => (cfg.env["A"] = <<"2">> /\ cfg.env["B"] = <<"3">>)

\* C8 witness: the case ambient A=1, env file A=2 B=2, inline B=3.
C8_Witness ==
    /\ rpc = "substituted"
    /\ Get(toolExecutionEnvironment(envIn), "A") = <<"1">>
    /\ envIn.before.envFile = <<"/ws/a.env">>
    /\ InlineEnv = [B |-> <<"3">>]

\* C9 as stated: a user mode "auto" resolves to "test" exactly for an active
\* editor on a file ending in _test.go and to "debug" otherwise, and any other
\* user mode is returned unchanged.
C9_AsStated ==
    (rpc = "resolved" /\ ret = "config" /\ Has(input.user.p, "mode")) =>
        IF input.user.p["mode"] = "auto"
          THEN Get(cfg.p, "mode") = AutoMode
          ELSE Get(cfg.p, "mode") = input.user.p["mode"]

\* C9 amended: with a request in the user configuration, mode "auto" resolves
\* to "test" exactly for an active editor on a file ending in _test.go and to
\* "debug" otherwise, and any other mode (or none) is returned unchanged;
\* without a request the mode the user gave is replaced by the skeleton's
\* "auto" and resolves the same way.
C9_ModeResolution ==
    (rpc = "resolved" /\ ret = "config") =>
        IF UserHasRequest /\ Get(input.user.p, "mode") # "auto"
          THEN /\ Has(cfg.p, "mode") <=> Has(input.user.p, "mode")
               /\ Get(cfg.p, "mode") = Get(input.user.p, "mode")
          ELSE Get(cfg.p, "mode") = AutoMode

\* C9 witness: mode "auto" became "test" for a file named like a Go test that
\* is not opened as a Go file.
C9_Witness ==
    /\ rpc = "resolved" /\ ret = "config"
    /\ Get(input.user.p, "mode") = "auto"
    /\ input.editor.languageId = "plaintext"
    /\ Get(cfg.p, "mode") = "test"

\* C10: without a request in the user configuration (or without a user
\* configuration) and without a Go file in the active editor,
\* resolveDebugConfiguration returns undefined, shows no warning and does not
\* prompt for dlv.
C10_NothingToDebug ==
    (rpc # "idle" /\ ~UserHasRequest /\ ~EditorShowsGo) =>
        /\ rpc = "aborted"
        /\ ret = "undefined"
        /\ shown = <<>>
        /\ toolPrompts = 0

\* C10 witness: the call returned undefined for a configuration without a
\* request whose buildFlags hold gcflags, with another language in the
\* editor or none, and dlv not installed.
C10_Witness ==
    /\ rpc = "aborted" /\ ret = "undefined"
    /\ ~UserHasRequest /\ ~EditorShowsGo
    /\ input.user.def /\ HasBuildFlags(input.user) /\ removeFlag(input.user.bf, "gcflags").removed
    /\ ~isAbsolute(input.dlvPath)
    /\ ~getFromGlobalState(globalState, "ignoreDebugGCFlagsWarning")

\* Resolution got past the editor gate of lines 320-324: the user
\* configuration has a request, or a Go file is in the active editor.
PastEditorGate == UserHasRequest \/ EditorShowsGo

\* The keys of the warnings of lines 405-421.
RemoteWarningKeys == {"ignoreDebugLaunchRemoteWarning", "ignoreUsingRemotePathAndProgramWarning"}

\* getBinPath found no dlv binary and returned the bare tool name.
DlvMissing == input.dlvPath = "dlv"

\* C11 as stated: whenever dlv does not resolve to an absolute path,
\* resolveDebugConfiguration returns no configuration, prompts for dlv exactly
\* once and shows neither the launch/remote nor the attach/remote/program
\* warning.
C11_AsStated ==
    (rpc # "idle" /\ DlvMissing) =>
        /\ ret = "undefined"
        /\ toolPrompts = 1
        /\ \A i \in 1..Len(shown) : shown[i][1] \notin RemoteWarningKeys

\* C11 amended: when resolution gets past the editor gate (the user
\* configuration has a request, or a Go file is active) and dlv does not
\* resolve to an absolute path, resolveDebugConfiguration returns no
\* configuration, prompts for dlv exactly once and shows neither the
\* launch/remote nor the attach/remote/program warning; when it does not get
\* past the gate it returns no configuration without prompting.
C11_MissingDlv ==
    (rpc # "idle" /\ DlvMissing) =>
        /\ rpc = "aborted"
        /\ ret = "undefined"
        /\ toolPrompts = IF PastEditorGate THEN 1 ELSE 0
        /\ \A i \in 1..Len(shown) : shown[i][1] \notin RemoteWarningKeys

\* C11 witness: dlv is not installed, the user asked for launch in mode
\* remote, the launch/remote warning is not suppressed, and the call prompted
\* for dlv.
C11_Witness ==
    /\ rpc = "aborted" /\ toolPrompts = 1
    /\ DlvMissing
    /\ Get(input.user.p, "request") = "launch" /\ Get(input.user.p, "mode") = "remote"
    /\ ~getFromGlobalState(globalState, "ignoreDebugLaunchRemoteWarning")

\* The step is a resolveDebugConfiguration call.
ResolveStep == rpc = "idle" /\ rpc' # "idle"

\* The showWarning calls the resolveDebugConfiguration call of the step makes.
WarnCalls == resolveDebugConfiguration(input'.user, input'.editor, input'.dlvConfig, input'.dlvPath).warn

\* The prompts the step presents.
Presented == {i \in 1..Len(shown') : i > Len(shown)}

\* The step answers prompt i with "Don't Show Again"; the step dismisses it.
AnswersNever(i) == i \in open /\ answers[i] = "open" /\ answers'[i] = "never"
Dismisses(i) == i \in open /\ answers[i] = "open" /\ answers'[i] = "dismissed"

\* The keys of the prompts the user has answered with "Don't Show Again".
NeverKeys == {shown[i][1] : i \in {j \in 1..Len(shown) : answers[j] = "never"}}

\* "Don't Show Again" persists the key of the warning.
NeverPersists == \A i \in 1..Len(shown) : AnswersNever(i) => getFromGlobalState(globalState', shown[i][1])

\* A dismissal persists nothing.
DismissalPersistsNothing == \A i \in 1..Len(shown) : Dismisses(i) => globalState' = globalState

\* A showWarning call presents its warning exactly when its key is not
\* persisted: the prompts presented are the calls with such a key, in order.
PresentedUnlessPersisted ==
    ResolveStep =>
        /\ \A i \in Presented : ~getFromGlobalState(globalState, shown'[i][1])
        /\ \A j \in 1..Len(WarnCalls) :
              ~getFromGlobalState(globalState, WarnCalls[j][1]) => \E i \in Presented : shown'[i] = WarnCalls[j]
        /\ Len(shown') - Len(shown) =
              Cardinality({j \in 1..Len(WarnCalls) : ~getFromGlobalState(globalState, WarnCalls[j][1])})

\* C12 as stated: "Don't Show Again" persists the key of the warning, and no
\* later showWarning call with that key, in any later resolution or session,
\* presents anything; a dismissal persists nothing, and the warning is
\* presented again the next time it is triggered.
C12_AsStated ==
    [][/\ NeverPersists
       /\ ResolveStep => \A i \in Presented : shown'[i][1] \notin NeverKeys
       /\ DismissalPersistsNothing
       /\ PresentedUnlessPersisted]_vars

\* C12 amended: "Don't Show Again" persists the key of the warning; a
\* showWarning call presents nothing exactly when its key is persisted at the
\* time of the call; no resolution, answer, dismissal, new session or restart
\* removes a persisted key, only the reset command does (resetGlobalKey),
\* after which the warning is presented again; a dismissal persists nothing.
C12_SuppressionPersists ==
    [][/\ NeverPersists
       /\ PresentedUnlessPersisted
       /\ \A k \in WarningKeys :
             (getFromGlobalState(globalState, k) /\ ~getFromGlobalState(globalState', k)) =>
                 /\ UNCHANGED <<rpc, input, cfg, ret, shown, open, answers, sessions, toolPrompts, envIn>>
                 /\ globalState' = clearGlobalState(globalState, k)
       /\ DismissalPersistsNothing]_vars

\* C12 witness: the user answered the launch/remote warning of the first
\* session with "Don't Show Again", and the second session, again launch in
\* mode remote, presented nothing.
C12_Witness ==
    /\ sessions = 1 /\ rpc = "resolved"
    /\ \E i \in 1..Len(shown) :
          /\ answers[i] = "never"
          /\ shown[i][1] = "ignoreDebugLaunchRemoteWarning"
    /\ Get(input.user.p, "request") = "launch" /\ Get(input.user.p, "mode") = "remote"
    /\ getFromGlobalState(globalState, "ignoreDebugLaunchRemoteWarning")
    /\ Len(shown) = 1

\* The words that give gcflags a value, and those that give it a non-empty
\* one.
GcflagsWords == {"--gcflags=all=-N", "-gcflags=-l", "--gcflags=", "--gcflags"}
GcflagsValueWords == {"--gcflags=all=-N", "-gcflags=-l"}

\* The words of a flag string that do not belong to GcflagsWords.
WithoutGcflagsWords(ws) == SelectSeq(ws, LAMBDA w : w \notin GcflagsWords)

\* The words of buildFlags and of env.GOFLAGS the user supplied, and those of
\* the resolved configuration (none where the field is absent).
UserBuildFlags == IF Has(input.user.p, "buildFlags") THEN input.user.bf ELSE <<>>
UserGoFlags == IF Has(input.user.p, "env") /\ Has(input.user.env, "GOFLAGS") THEN input.user.env["GOFLAGS"] ELSE <<>>
ResolvedBuildFlags == IF Has(cfg.p, "buildFlags") THEN cfg.bf ELSE <<>>
ResolvedGoFlags == IF Has(cfg.p, "env") /\ Has(cfg.env, "GOFLAGS") THEN cfg.env["GOFLAGS"] ELSE <<>>

\* C13 as stated: in the configuration resolveDebugConfiguration returns,
\* neither buildFlags nor env.GOFLAGS has a gcflags flag, the other words the
\* user supplied are all there and no others, and buildFlags
\* "--gcflags=all=-N -l --other=1" has become "--other=1".
C13_AsStated ==
    (rpc = "resolved" /\ ret = "config") =>
        /\ \A i \in 1..Len(ResolvedBuildFlags) : ResolvedBuildFlags[i] \notin GcflagsWords
        /\ \A i \in 1..Len(ResolvedGoFlags) : ResolvedGoFlags[i] \notin GcflagsWords
        /\ UserBuildFlags # <<"--gcflags=all=-N", "-l", "--other=1">> =>
              ResolvedBuildFlags = WithoutGcflagsWords(UserBuildFlags)
        /\ ResolvedGoFlags = WithoutGcflagsWords(UserGoFlags)
        /\ UserBuildFlags = <<"--gcflags=all=-N", "-l", "--other=1">> => ResolvedBuildFlags = <<"--other=1">>

\* C14: the warning for gcflags removed from buildFlags and the warning for
\* gcflags removed from env.GOFLAGS have different suppression keys, so that
\* "Don't Show Again" on one of them does not persist the key of the other.
C14_DistinctKeys ==
    \A i, j \in 1..Len(shown) :
        (shown[i][2] = "buildFlags" /\ shown[j][2] = "GOFLAGS") =>
            /\ shown[i][1] # shown[j][1]
            /\ (answers[i] = "never" /\ answers[j] = "open" /\ rpc # "idle") =>
                   ~getFromGlobalState(globalState, shown[j][1])

\* The resolution removed a gcflags flag from buildFlags or from env.GOFLAGS.
GcflagsWasRemoved ==
    /\ PastEditorGate
    /\ \/ \E i \in 1..Len(UserBuildFlags) : UserBuildFlags[i] \in GcflagsValueWords
       \/ \E i \in 1..Len(UserGoFlags) : UserGoFlags[i] \in GcflagsValueWords

\* The prompts shown under key ignoreDebugGCFlagsWarning.
GcFlagsPrompts == {i \in 1..Len(shown) : shown[i][1] = "ignoreDebugGCFlagsWarning"}

\* C15: in the resolution of one session the warning with key
\* ignoreDebugGCFlagsWarning is shown never twice, once when a gcflags flag was
\* removed (from buildFlags, from env.GOFLAGS or from both) and the key is not
\* suppressed, and not at all when nothing was removed.
C15_OncePerResolution ==
    rpc # "idle" =>
        /\ Cardinality(GcFlagsPrompts) <= 1
        /\ Cardinality(GcFlagsPrompts) = 1 => GcflagsWasRemoved
        /\ (GcflagsWasRemoved /\ ~getFromGlobalState(globalState, "ignoreDebugGCFlagsWarning")) =>
               Cardinality(GcFlagsPrompts) = 1

\* C16: a useApiV1 the debug configuration has, true or false, decides before
\* the useApiV1 of the workspace delveConfig; the returned apiVersion is 1 when
\* the deciding useApiV1 is true, and otherwise the configuration's own
\* apiVersion if it has one, else the delveConfig's if it has one, else none.
C16_ApiVersion ==
    (rpc = "resolved" /\ ret = "config") =>
        LET effective == IF Has(input.user.p, "useApiV1") THEN input.user.p["useApiV1"] = "true"
                         ELSE Get(input.dlvConfig, "useApiV1") = "true"
        IN  IF effective THEN Get(cfg.p, "apiVersion") = "1"
            ELSE IF Has(input.user.p, "apiVersion") THEN Get(cfg.p, "apiVersion") = input.user.p["apiVersion"]
            ELSE IF Has(input.dlvConfig, "apiVersion") THEN Get(cfg.p, "apiVersion") = input.dlvConfig["apiVersion"]
            ELSE ~Has(cfg.p, "apiVersion")

\* C16 witness: the configuration says useApiV1 false and apiVersion 2, the
\* delveConfig says useApiV1 true and apiVersion 3, and apiVersion 2 is
\* returned.
C16_Witness ==
    /\ rpc = "resolved" /\ ret = "config"
    /\ Get(input.user.p, "useApiV1") = "false" /\ Get(input.user.p, "apiVersion") = "2"
    /\ Get(input.dlvConfig, "useApiV1") = "true" /\ Get(input.dlvConfig, "apiVersion") = "3"
    /\ Get(cfg.p, "apiVersion") = "2"

\* What C17 says of property k: the returned configuration has the user's
\* value if the user configuration has the property, else the delveConfig's
\* if that has it, else it does not have the property.
UserValueWins(k) ==
    IF Has(input.user.p, k) THEN Has(cfg.p, k) /\ cfg.p[k] = input.user.p[k]
    ELSE IF Has(input.dlvConfig, k) THEN Has(cfg.p, k) /\ cfg.p[k] = input.dlvConfig[k]
    ELSE ~Has(cfg.p, k)

\* C17: dlvLoadConfig and showGlobalVariables of the returned configuration
\* are the user configuration's values whenever it has them, falsy values
\* included, and the workspace delveConfig's only when it does not.
C17_UserValueWins ==
    (rpc = "resolved" /\ ret = "config") =>
        UserValueWins("dlvLoadConfig") /\ UserValueWins("showGlobalVariables")

\* C17 witness: the user says showGlobalVariables false and gives no
\* dlvLoadConfig, the delveConfig says showGlobalVariables true and gives a
\* dlvLoadConfig.
C17_Witness ==
    /\ rpc = "resolved" /\ ret = "config"
    /\ Get(input.user.p, "showGlobalVariables") = "false" /\ ~Has(input.user.p, "dlvLoadConfig")
    /\ Get(input.dlvConfig, "showGlobalVariables") = "true" /\ Has(input.dlvConfig, "dlvLoadConfig")
    /\ Get(cfg.p, "showGlobalVariables") = "false"
    /\ Get(cfg.p, "dlvLoadConfig") = input.dlvConfig["dlvLoadConfig"]

\* The request resolution works with: the user's, or "launch" in its absence.
EffectiveRequest == IF UserHasRequest THEN input.user.p["request"] ELSE "launch"

\* VS Code's variable for the root of the workspace folder.
WorkspaceRoot == "${workspaceFolder}"

\* C18: in the returned configuration, cwd is the workspace root for an
\* attach request without a cwd (none or the empty string); a cwd the user
\* set is returned with the home-directory shorthand expanded (~/proj is
\* /home/user/proj, /tmp/dbg is itself); for a launch request without a cwd,
\* cwd is as the user left it.
C18_Cwd ==
    (rpc = "resolved" /\ ret = "config") =>
        IF Truthy(Get(input.user.p, "cwd"))
          THEN /\ input.user.p["cwd"] = "~/proj" => Get(cfg.p, "cwd") = "/home/user/proj"
               /\ input.user.p["cwd"] = "/tmp/dbg" => Get(cfg.p, "cwd") = "/tmp/dbg"
               /\ Get(cfg.p, "cwd") \in {"/home/user/proj", "/tmp/dbg"}
          ELSE IF EffectiveRequest = "attach"
            THEN Get(cfg.p, "cwd") = WorkspaceRoot
            ELSE /\ Has(cfg.p, "cwd") <=> Has(input.user.p, "cwd")
                 /\ Get(cfg.p, "cwd") = Get(input.user.p, "cwd")

\* C18 witness: an attach request without cwd was given the workspace root.
C18_Witness ==
    /\ rpc = "resolved" /\ ret = "config"
    /\ Get(input.user.p, "request") = "attach" /\ ~Has(input.user.p, "cwd")
    /\ Get(cfg.p, "cwd") = WorkspaceRoot

\* C19: without a user configuration (or with one that has no request) and
\* with a Go file in the active editor, the returned configuration has request
\* "launch", the provider's default adapter type, and as program the directory
\* of the active file: /ws for /ws/main.go.
C19_Skeleton ==
    (rpc = "resolved" /\ ret = "config" /\ ~UserHasRequest /\ EditorShowsGo) =>
        /\ Get(cfg.p, "request") = "launch"
        /\ Get(cfg.p, "type") = "go"
        /\ Get(cfg.p, "program") = input.editor.fileName.dir
        /\ input.editor = GoEditor => Get(cfg.p, "program") = "/ws"

\* C19 witness: a configuration was returned for no user configuration and
\* /ws/main.go in the active editor.
C19_Witness ==
    /\ rpc = "resolved" /\ ret = "config"
    /\ ~input.user.def
    /\ input.editor = GoEditor
    /\ Get(cfg.p, "program") = "/ws"

\* The call reaches the launch/remote warning of lines 405-410; it reaches
\* the attach/remote/program warning of lines 412-421.
LaunchRemote ==
    /\ ~DlvMissing
    /\ Get(input.user.p, "request") = "launch" /\ Get(input.user.p, "mode") = "remote"
AttachRemoteProgram ==
    /\ ~DlvMissing
    /\ Get(input.user.p, "request") = "attach" /\ Get(input.user.p, "mode") = "remote"
    /\ Truthy(Get(input.user.p, "program"))

\* Property k of the configuration is as the user supplied it.
AsSupplied(k) == (Has(cfg.p, k) <=> Has(input.user.p, k)) /\ Get(cfg.p, k) = Get(input.user.p, k)

\* C20: a call that reaches the launch/remote warning or the
\* attach/remote/program warning returns the configuration, with request, mode
\* and program as the user supplied them, whether the warning is suppressed,
\* shown and unanswered, or answered; and the answer changes none of it.
C20_WarningsDoNotBlock ==
    (rpc # "idle" /\ (LaunchRemote \/ AttachRemoteProgram)) =>
        /\ rpc \in {"resolved", "substituted"}
        /\ ret = "config"
        /\ AsSupplied("request") /\ AsSupplied("mode") /\ AsSupplied("program")
        /\ toolPrompts = 0

\* C20 witness: the attach/remote/program warning was shown and the user
\* answered it with "Don't Show Again".
C20_Witness ==
    /\ rpc = "resolved" /\ AttachRemoteProgram
    /\ \E i \in 1..Len(shown) :
          shown[i][1] = "ignoreUsingRemotePathAndProgramWarning" /\ answers[i] = "never"
    /\ Get(cfg.p, "program") = "/ws/cmd"

\* The step changes the suppression flag of warning key k.
FlagChanges(k) == getFromGlobalState(globalState, k) # getFromGlobalState(globalState', k)

\* The step answers a prompt of the warning with key k with "Don't Show Again".
NeverOn(k) == \E i \in 1..Len(shown) : shown[i][1] = k /\ AnswersNever(i)

\* The step is the reset command clearing key k and nothing else.
ResetOf(k) ==
    /\ getFromGlobalState(globalState, k)
    /\ globalState' = clearGlobalState(globalState, k)
    /\ UNCHANGED <<rpc, input, cfg, ret, shown, open, answers, sessions, toolPrompts, envIn>>
    /\ UNCHANGED moduleVars

\* C21 as stated: the suppression flag of a warning changes only when the
\* user answers that warning with "Don't Show Again"; no resolution step,
\* other prompt or other operation sets or clears it, and it never expires.
C21_AsStated ==
    [][\A k \in WarningKeys : FlagChanges(k) => (NeverOn(k) /\ getFromGlobalState(globalState', k))]_vars

\* C21 amended: the suppression flag of a warning is set only when the user
\* answers that warning with "Don't Show Again" and cleared only by the reset
\* command with that key picked; no resolution step, prompt of
\* promptToUpdateToolForModules, new session or restart changes it.
C21_FlagFrame ==
    [][\A k \in WarningKeys :
          FlagChanges(k) => IF getFromGlobalState(globalState', k) THEN NeverOn(k) ELSE ResetOf(k)]_vars

\* C21 witness: a warning flag is set, the gopls prompt was answered with
\* "Don't show again" and its flag stored, and a second session has resolved.
C21_Witness ==
    /\ getFromGlobalState(globalState, "ignoreDebugGCFlagsWarning")
    /\ ~getFromGlobalState(globalState, "ignoreDebugLaunchRemoteWarning")
    /\ storedObj # -1 /\ "gopls" \in objTools[storedObj]
    /\ sessions = 1 /\ rpc = "resolved"

-----------------------------------------------------------------------------
(* Claims about lock() callers and re-entrant functions *)

\* Call c holds the mutex: lock() has resolved for it (for dispatch(): on its
\* behalf) and its release handle has not been called yet.
Holds(c) == state[c] \in {"granted", "running", "settled"}

\* C22: lock() holders and dispatch() functions exclude each other, and a
\* call is granted the mutex only when every call made before it, by lock()
\* or by dispatch(), has been granted it and has released it: grants follow
\* the order of the calls.
C22_LockOrder ==
    /\ Cardinality({c \in Calls : Holds(c)}) <= 1
    /\ \A c, d \in Calls :
          (Pos(c) > 0 /\ Pos(c) < Pos(d) /\ state[d] \notin {"idle", "waiting"})
              => (state[c] = "done" /\ inner[c])

\* C22 witness: a lock() caller holds the mutex after a dispatch() call made
\* before it is over, while a dispatch() call made after it waits.
C22_Witness ==
    \E b, c, d \in Calls :
        /\ Pos(b) = 1 /\ Pos(c) = 2 /\ Pos(d) = 3
        /\ kind[b] \in BodyKinds /\ state[b] = "done"
        /\ kind[c] \in LockKinds /\ state[c] = "granted"
        /\ kind[d] \in BodyKinds /\ state[d] = "waiting"

\* C23: a function that, while it holds the mutex, calls dispatch() or lock()
\* on the same Mutex and awaits the result never completes: its dispatch()
\* promise stays pending, the call it made is never granted, and no call made
\* after it ever starts or is granted the mutex.
C23_ReentrantDeadlock ==
    \A c \in Calls :
        kind[c] = "reenter" =>
            /\ state[c] \notin {"settled", "done"}
            /\ result[c] = Pending
            /\ ~inner[c]
            /\ \A d \in Calls :
                  (Pos(d) > Pos(c)) => (state[d] = "waiting" /\ runs[d] = 0 /\ result[d] = Pending)

\* C23 witness: a running function has made a nested call, which waits, and
\* a call made afterwards from outside waits behind it.
C23_Witness ==
    \E c, d, e \in Calls :
        /\ kind[c] = "reenter" /\ state[c] = "running"
        /\ parent[d] = c /\ state[d] = "waiting" /\ pred[d] = c
        /\ parent[e] = 0 /\ Pos(e) > Pos(d) /\ state[e] = "waiting"

\* Call c never releases the mutex: its function never settles, or it is a
\* lock() caller that never calls the release handle.
NeverReleases(c) == Pos(c) > 0 /\ kind[c] \in {"never", "lockNever"}

\* Every call made before c releases the mutex once it holds it.
EarlierRelease(c) == \A d \in Calls : (Pos(d) > 0 /\ Pos(d) < Pos(c)) => ~NeverReleases(d)

\* C24: behind a call whose function never settles, or whose lock() holder
\* never calls the release handle, no call is ever granted the mutex and no
\* function ever starts; the calls made before it are still granted the
\* mutex, and the functions among them run and settle normally.
C24_BlockedBehind ==
    /\ [](\A c, d \in Calls :
            (NeverReleases(c) /\ Pos(d) > Pos(c))
                => (state[d] = "waiting" /\ runs[d] = 0 /\ result[d] = Pending))
    /\ \A b \in Calls :
          (state[b] = "waiting" /\ EarlierRelease(b))
              ~> (IF kind[b] \in LockKinds \cup {"never"}
                    THEN Holds(b) \/ state[b] = "done"
                    ELSE state[b] = "done" /\ result[b] = BodyOutcome(b, kind[b]))

\* C24 witness: a call made before a never-releasing one is over with its
\* outcome delivered, while the call made after it still waits.
C24_Witness ==
    \E b, c, d \in Calls :
        /\ Pos(b) = 1 /\ Pos(c) = 2 /\ Pos(d) = 3
        /\ kind[b] = "ok" /\ state[b] = "done" /\ result[b][1] = "fulfilled"
        /\ NeverReleases(c) /\ Holds(c)
        /\ state[d] = "waiting"

\* C29: a function that throws synchronously is handled like one whose promise
\* rejects at once: the dispatch() promise is rejected with the thrown error,
\* the mutex is released in the same step, and the call queued behind it
\* eventually has its function invoked.
C29_SyncThrow ==
    /\ [](\A c \in Calls :
            (kind[c] = "throw" /\ runs[c] = 1)
                => (state[c] = "done" /\ result[c] = <<"rejected", c>> /\ inner[c]))
    /\ [](\A c \in Calls :
            (kind[c] = "reject" /\ state[c] = "done")
                => (result[c] = <<"rejected", c>> /\ inner[c]))
    /\ \A c, d \in Calls :
          (pred[d] = c /\ kind[c] = "throw" /\ state[d] = "waiting") ~> (runs[d] = 1)

\* C29 witness: a function threw, its call was rejected with its own error,
\* and the function queued behind it while it held the mutex has run.
C29_Witness ==
    \E c, d \in Calls :
        /\ kind[c] = "throw" /\ result[c] = <<"rejected", c>>
        /\ pred[d] = c /\ runs[d] = 1 /\ Pos(d) = Pos(c) + 1

-----------------------------------------------------------------------------
(* Claims about the phases of a resolution *)

\* The step is a resolveDebugConfigurationWithSubstitutedVariables call.
SubstituteStep == rpc # "substituted" /\ rpc' = "substituted"

-----------------------------------------------------------------------------
(* Claims about goEnv *)

\* Call i returned an object of its own: not undefined, not process.env, not
\* the object an earlier call returned.
ReturnsNewObject(i) ==
    /\ envCalls[i].ret # 0
    /\ envCalls[i].ret # 1
    /\ \A j \in 1..(i - 1) : envCalls[j].ret # envCalls[i].ret

\* C26: toolInstallationEnvironment and toolExecutionEnvironment always return
\* a new object, never undefined, never process.env, never the object of an
\* earlier call; so merging into a returned object changes neither process.env
\* nor the object any other call returned.
C26_AlwaysNewObject ==
    /\ \A i \in 1..Len(envCalls) : ReturnsNewObject(i)
    /\ envObjs[1] = ProcessEnv
    /\ \A i \in 1..Len(envCalls) :
          (envCalls[i].ret # 0 /\ ~envCalls[i].merged) => envObjs[envCalls[i].ret] = envCalls[i].made

-----------------------------------------------------------------------------
(* Claims about normalizeSeparators and getCheckForToolsUpdatesConfig *)

\* The segments of a path: the runs of characters between separators.
RECURSIVE Segments(_)
Segments(p) ==
    IF p = <<>> THEN <<<<>>>>
    ELSE LET rest == Segments(Tail(p))
         IN  IF Head(p) \in {"/", "\\"}
               THEN <<<<>>>> \o rest
               ELSE <<<<Head(p)>> \o Head(rest)>> \o Tail(rest)

\* C27: normalizeSeparators replaces every backslash by a forward slash and
\* nothing else but the case of a leading drive letter, which it upper-cases;
\* '.' and '..' segments stay where they are; applied to its own result it
\* returns it unchanged; and it returns what the tests want for their inputs.
C27_NormalizeSeparators ==
    /\ Len(sepOut) >= 1 =>
          /\ Len(sepOut[1]) = Len(sepIn)
          /\ \A i \in 1..Len(sepIn) :
                /\ sepOut[1][i] # "\\"
                /\ sepIn[i] = "\\" => sepOut[1][i] = "/"
                /\ (sepIn[i] # "\\" /\ ~(i = 1 /\ HasDrive(sepIn))) => sepOut[1][i] = sepIn[i]
          /\ (HasDrive(sepIn) /\ sepIn[1] # "\\") => sepOut[1][1] = toUpperCase(sepIn[1])
          /\ Len(Segments(sepOut[1])) = Len(Segments(sepIn))
          /\ \A j \in 1..Len(Segments(sepIn)) :
                Segments(sepIn)[j] \in {<<".">>, <<".", ".">>} => Segments(sepOut[1])[j] = Segments(sepIn)[j]
          /\ \A tc \in SepTests : sepIn = tc.input => sepOut[1] = tc.want
    /\ Len(sepOut) >= 2 => sepOut[2] = sepOut[1]

\* C27 witness: a Windows path with a lower-case drive letter, backslashes
\* and a '..' segment was normalized, and the result normalized again.
C27_Witness ==
    /\ Len(sepOut) = 2
    /\ sepIn = <<"c", ":", "\\", "p", "a", "t", "h", "\\", "t", "o", "\\", ".", ".", "\\", "f", "i", "l", "e">>
    /\ sepOut[1] = <<"C", ":", "/", "p", "a", "t", "h", "/", "t", "o", "/", ".", ".", "/", "f", "i", "l", "e">>

\* The new setting is explicitly set, globally or for the workspace.
ExplicitlySet == updIn.globalValue # "undefined" \/ updIn.workspaceValue # "undefined"

\* C28: getCheckForToolUpdatesConfig returns 'proxy' when nothing is set and
\* the legacy setting is not false, 'local' when the legacy setting is false
\* and the new setting is not explicitly set, and the explicitly set value of
\* the new setting (the workspace value before the global one) whatever the
\* legacy setting is.
C28_CheckForUpdates ==
    \A i \in 1..Len(updOut) :
        /\ (~ExplicitlySet /\ updIn.legacy # "false") => updOut[i] = "proxy"
        /\ (~ExplicitlySet /\ updIn.legacy = "false") => updOut[i] = "local"
        /\ updIn.workspaceValue # "undefined" => updOut[i] = updIn.workspaceValue
        /\ (updIn.workspaceValue = "undefined" /\ updIn.globalValue # "undefined") => updOut[i] = updIn.globalValue

\* C28 witness: the legacy setting is false, the workspace sets 'off', and
\* the function answered 'off' (part_004 lines 69-77).
C28_Witness ==
    /\ updIn = [legacy |-> "false", globalValue |-> "undefined", workspaceValue |-> "off"]
    /\ updOut = <<"off", "off">>

-----------------------------------------------------------------------------
(* Claims about getModFolderPath *)

\* The step is a getModFolderPath call, call c, for package path p.
ModCallStep(c, p) == modCall[c].pc = "idle" /\ modCall'[c].pc # "idle" /\ modCall'[c].pkg = p

\* C30: once a non-empty module path is stored for a package path, no step of
\* any getModFolderPath call, later or in flight, changes the entry, and a
\* call made from then on returns the stored value at once, without running
\* the go command and without a prompt.
C30_StoredEntryStable ==
    [][\A p \in PkgPaths :
          Truthy(packagePathToGoModPathMap[p]) =>
              /\ packagePathToGoModPathMap'[p] = packagePathToGoModPathMap[p]
              /\ \A c \in ModCalls :
                    ModCallStep(c, p) =>
                        /\ modCall'[c].pc = "done"
                        /\ modCall'[c].ret = packagePathToGoModPathMap[p]
                        /\ ~modCall'[c].ranGo
                        /\ promptCall' = promptCall]_vars

-----------------------------------------------------------------------------
(* Claims about getConfiguredTools *)

\* The language server is enabled: go.useLanguageServer is set and the Go
\* version is above 1.11.
LanguageServerEnabled == toolsIn.goConfig.useLanguageServer = "true" /\ VersionGt(toolsIn.goVersion, 11)

\* C31: with the language server enabled, getConfiguredTools returns no tool
\* marked replacedByGopls, whatever docsTool, formatTool and lintTool are, and
\* the list it returns contains gopls.
C31_NoReplacedTools ==
    \A i \in 1..Len(toolsOut) :
        LanguageServerEnabled =>
            /\ \A j \in 1..Len(toolsOut[i]) : allToolsInformation[toolsOut[i][j]] # "true"
            /\ \E j \in 1..Len(toolsOut[i]) : toolsOut[i][j] = "gopls"

\* C31 witness: with the language server enabled on Go 1.11.4 and goreturns,
\* gogetdoc and revive configured, the list holds revive and gopls.
C31_Witness ==
    /\ LanguageServerEnabled
    /\ toolsIn.goVersion = <<11, 4>>
    /\ toolsIn.goConfig.formatTool = "goreturns" /\ toolsIn.goConfig.docsTool = "gogetdoc"
    /\ toolsIn.goConfig.lintTool = "revive"
    /\ Len(toolsOut) = 1
    /\ \E j \in 1..Len(toolsOut[1]) : toolsOut[1][j] = "revive"
    /\ \E j \in 1..Len(toolsOut[1]) : toolsOut[1][j] = "gopls"

-----------------------------------------------------------------------------
(* Claims about repeated unlock calls *)

\* C32: calling a release handle again has no effect: whoever holds the mutex
\* keeps it until its own handle is called (its inner promise is unresolved
\* while it holds), a call behind a holder is not granted, and at most one
\* call holds the mutex, however often earlier holders call their handles.
C32_StaleUnlock ==
    /\ Cardinality({c \in Calls : Holds(c)}) <= 1
    /\ \A c \in Calls : Holds(c) => (~inner[c] /\ tail[c] = "pending")
    /\ \A c, d \in Calls : (Holds(c) /\ Pos(d) > Pos(c)) => state[d] = "waiting"

\* C32 witness: an earlier lock() holder has called its handle three times
\* while a later call holds the mutex and another waits behind it.
C32_Witness ==
    \E b, c, d \in Calls :
        /\ kind[b] = "lock" /\ unlocks[b] = 3
        /\ Pos(c) = Pos(b) + 1 /\ Holds(c)
        /\ Pos(d) = Pos(c) + 1 /\ state[d] = "waiting"

-----------------------------------------------------------------------------
(* Claims about lintCode and goLint *)

\* The lint runs that are in flight: started by runTool and not settled.
LintInFlight == {e \in 1..Len(lintRuns) : lintRuns[e].state = "running"}

\* C33: at any time at most one lint run is both in flight and not
\* cancelled: every run in flight but the one of the latest goLint call has
\* had its token cancelled.
C33_OneLiveRun ==
    /\ Cardinality({e \in LintInFlight : lintRuns[e].token \notin cancelled}) <= 1
    /\ \A e \in LintInFlight : e < epoch => lintRuns[e].token \in cancelled

\* C33 witness: two runs are in flight, the earlier one cancelled, after a
\* run in between has completed.
C33_Witness ==
    /\ Len(lintRuns) = 3
    /\ lintRuns[1].state = "running" /\ lintRuns[1].token \in cancelled
    /\ lintRuns[2].state = "fulfilled"
    /\ lintRuns[3].state = "running" /\ lintRuns[3].token \notin cancelled

\* C34: whenever no lint run is in flight, running is false.
C34_RunningFalseWhenIdle == (LintInFlight = {}) => ~running

\* C40: a lintCode call with scope 'workspace' and no active editor shows no
\* message and does not fail: it goes on to its goLint call, and the result
\* of a run that fulfils is passed to the diagnostics handler.
C40_WorkspaceWithoutEditor ==
    \A i \in 1..Len(lintCodeCalls) :
        (lintCodeCalls[i].scope = "workspace" /\ lintCodeCalls[i].editor = "none") =>
            /\ lintCodeCalls[i].outcome = "goLint"
            /\ lintRuns[lintCodeCalls[i].epoch].state \in {"early", "fulfilled"}
                  => lintRuns[lintCodeCalls[i].epoch].ui = "handled"

-----------------------------------------------------------------------------
(* Claims about promptToUpdateToolForModules *)

\* The tools flagged in the object stored under promptedToolsForModules.
FlaggedTools == IF storedObj = -1 THEN {} ELSE objTools[storedObj]

\* The number of prompts shown for tool t.
TimesShown(t) == Cardinality({i \in 1..Len(promptsShown) : promptsShown[i] = t})

\* The step is the reset command for promptedToolsForModules.
ResetToolsStep == storedObj # -1 /\ storedObj' = -1

\* C35: the prompt for a tool is shown at most once in a session, whatever
\* the interleaving of the calls, and it is not shown for a tool that is
\* flagged in the global state.
C35_PromptOnce ==
    [][\A t \in Tools :
          /\ TimesShown(t)' <= 1
          /\ TimesShown(t)' > TimesShown(t) => t \notin FlaggedTools]_vars

\* C36: a flag persisted for a tool is never lost: but for the reset
\* command, a tool flagged in the global state is flagged after every step.
C36_FlagKept ==
    [][ResetToolsStep \/ \A t \in Tools : t \in FlaggedTools => t \in FlaggedTools']_vars

-----------------------------------------------------------------------------
(* Claims about what resolveDebugConfiguration leaves behind *)

\* C37: when resolution aborts because dlv is missing, the object the caller
\* passed is as it was passed in (no defaulted type, cwd or apiVersion, no
\* stripped buildFlags or GOFLAGS) and no gcflags warning was shown.
C37_AbortLeavesObject ==
    (rpc = "aborted" /\ PastEditorGate /\ DlvMissing) =>
        /\ cfg = input.user
        /\ GcFlagsPrompts = {}


\* The five properties the skeleton of lines 326-332 writes.
SkeletonKeys == {"name", "type", "request", "mode", "program"}

\* The user configuration with the five skeleton values written out by hand.
UserWithSkeleton ==
    [input.user EXCEPT
        !.def = TRUE,
        !.p = [k \in DOMAIN input.user.p \cup SkeletonKeys |->
                  CASE k = "name" -> "Launch"
                    [] k = "type" -> "go"
                    [] k = "request" -> "launch"
                    [] k = "mode" -> "auto"
                    [] k = "program" -> input.editor.fileName.dir
                    [] OTHER -> input.user.p[k]]]

\* C38: for a user configuration without a request (and a Go file active),
\* the skeleton's name, type, mode and program stand in place of whatever the
\* user gave for them, and every other property of the user is kept and
\* resolved as in a configuration that has a request: the result is that of
\* resolving the user's configuration with the skeleton values written out.
C38_SkeletonReplaces ==
    (rpc = "resolved" /\ ~UserHasRequest) =>
        /\ Get(cfg.p, "name") = "Launch"
        /\ Get(cfg.p, "type") = "go"
        /\ Get(cfg.p, "request") = "launch"
        /\ Get(cfg.p, "mode") = AutoMode
        /\ Get(cfg.p, "program") = input.editor.fileName.dir
        /\ \A k \in DOMAIN input.user.p : Has(cfg.p, k)
        /\ Truthy(Get(input.user.p, "cwd")) => cfg.p["cwd"] = resolvePath(input.user.p["cwd"])
        /\ DOMAIN cfg.env = DOMAIN input.user.env
        /\ UserBuildFlags = <<"--gcflags=all=-N", "-l", "--other=1">> => ResolvedBuildFlags = <<"-l", "--other", "1">>
        /\ UserGoFlags = <<"-race", "--gcflags=all=-N">> => ResolvedGoFlags = <<"--race">>
        /\ cfg = resolveDebugConfiguration(UserWithSkeleton, input.editor, input.dlvConfig, input.dlvPath).cfg

\* C38 witness: a configuration without a request that names itself, its
\* type, a mode and a program was resolved with the skeleton's values.
C38_Witness ==
    /\ rpc = "resolved" /\ ~UserHasRequest
    /\ Get(input.user.p, "name") = "Debug cmd"
    /\ Get(input.user.p, "type") = "godlvdap"
    /\ Get(input.user.p, "mode") = "remote"
    /\ Get(input.user.p, "program") = "/ws/cmd"
    /\ Get(cfg.p, "name") = "Launch" /\ Get(cfg.p, "type") = "go"
    /\ Get(cfg.p, "program") = "/ws"


\* Resolving the configuration resolveDebugConfiguration returned once more,
\* with the same editor, settings and dlv path.
ResolvedAgain == resolveDebugConfiguration(cfg, input.editor, input.dlvConfig, input.dlvPath)

\* C39: field-level resolution is idempotent: resolving a resolved
\* configuration again returns an equal configuration and shows no gcflags
\* warning, one pass having removed every gcflags flag.
C39_Idempotent ==
    (rpc = "resolved" /\ ret = "config") =>
        /\ ResolvedAgain.ret = "config"
        /\ ResolvedAgain.cfg = cfg
        /\ \A i \in 1..Len(ResolvedAgain.warn) :
              ResolvedAgain.warn[i][1] = "ignoreDebugGCFlagsWarning" =>
                  getFromGlobalState(globalState, "ignoreDebugGCFlagsWarning")

=============================================================================
